---- MODULE Spec2Model ----
(***************************************************************************)
(* GeoStack: the raster tile dispatcher with its MBTiles store             *)
(* (GeoSatellite, GeoTiles), the row-convention helper flip_y, and the     *)
(* vector sub-region fetch with its merge (GeoKMZ/osm_downloader.py).      *)
(*                                                                         *)
(* The specifications share the module, each over its own variables:       *)
(*   Spec         main() + run_downloader() writing to an MBTilesStorage   *)
(*   SpecSession  the same, with crashes, errors in the session body and   *)
(*                calls on the closed store                                *)
(*   SpecCommit   the commits of run_downloader over long work lists       *)
(*   SpecStoreFailure  the same, with a store whose writes and commits can *)
(*                fail                                                     *)
(*   SpecFlip     flip_y applied to bounded (z, y)                         *)
(*   SpecMerge    the concat + drop_duplicates merge on bounded frames     *)
(*   SpecAssoc    the same merge applied to three sets, nested and flat    *)
(*   SpecLayer    download_layers() / fetch_layer() with the stop flag     *)
(*   SpecAttempts one fetch_layer call with its attempts counted, under    *)
(*                the fairness of a running thread                         *)
(*   SpecBackoff  the except branch of fetch_layer on every message        *)
(*   SpecRegions  main() of osm_downloader.py over several regions         *)
(*   SpecEndpoints  main() of osm_downloader.py with an empty endpoint     *)
(*                list                                                     *)
(*   SpecBoundary fetch_save_voivodeships_geojson                          *)
(*   SpecFilter   the filters and the dedup of the boundary fetch on       *)
(*                records with attributes                                  *)
(*   SpecSelect   the endpoint selection of the fetchers in two runs       *)
(*   SpecFetch    the raster fetchers and the loop body on every kind of   *)
(*                response body, for GeoSatellite and GeoTiles             *)
(*   SpecViewer   the dispatcher writing tiles and the viewer's get_tile   *)
(*                reading them back from the file                          *)
(*   SpecOrder    run_downloader with the order in which as_completed     *)
(*                hands the finished fetches to the loop                   *)
(*   SpecThreads  the pool threads and the loop thread of run_downloader,  *)
(*                one step per call                                        *)
(*   SpecPartition  the split of a region into sub-regions, in fetch_layer *)
(*                and in fetch_save_voivodeships_geojson                   *)
(***************************************************************************)
EXTENDS Integers, Sequences, FiniteSets, Bags, TLC

VARIABLES
    \* ---- the MBTiles file and the sqlite3 connection (storage.py)
    disk,           \* rows of table tiles as committed to the file
    uniqueIndex,    \* the file has the UNIQUE INDEX tile_index
    conn,           \* "closed" | "open"
    tiles,          \* rows of table tiles as the open connection sees them
    disk_meta,      \* rows of table metadata as committed to the file
    metadata,       \* rows of table metadata as the open connection sees them
    malformed,      \* a crash in mid-transaction left the file damaged
    last_error,     \* what ended the session or the last call on the closed store
    \* ---- one invocation of main() / run_downloader (downloader.py)
    rpc,            \* "start" | "loop" | "returned" | "done"
    runs,           \* invocations of main() started so far on this file
    tiles_list,     \* the work list
    workers,        \* max_workers of the thread pool
    fstate,         \* per future: "pending" | "running" | "finished" | "consumed"
    fresult,        \* per future: what fetch_tile_content returned
    errors_count,
    processed,
    \* ---- flip_y applied repeatedly (utils.py)
    fz, fy, fy0, fn,
    \* ---- the merge of the fetched frames (osm_downloader.py 707-714)
    mframes,        \* the partial result sets, in partition order
    mstage,         \* "input" | "merged"
    final_gdf,      \* the merged frame
    \* ---- download_layers / fetch_layer (osm_downloader.py)
    stop_flag,      \* stop_flag.value
    nlayers,        \* len(layer_names)
    ntiles,         \* len(tiles): sub-regions of the partition
    nservers,       \* len(servers)
    max_attempts,
    lpc,            \* position in download_layers / fetch_layer
    layer,          \* index of the layer being fetched (1-based)
    i,              \* enumerate(tiles, 1)
    attempt,        \* range(1, max_attempts + 1)
    wait_time,      \* the sleep of the current backoff
    frames,         \* fetched non-empty frames of this layer
    issued,         \* the server index of every attempt issued for sub-region i
    kinds,          \* the outcome classes the attempts of sub-region i had
    exhausted,      \* sub-regions of this layer that ran out of attempts, all timeouts
    written,        \* what the current fetch_layer call wrote: [layer, rows]
    succeeded,
    failed,
    nregions,       \* len(region_names), 1 for a bbox run
    region,         \* index of the region main() is at (1-based)
    succeeded_total,
    failed_total,
    exit_status,    \* what main() passed to sys.exit, NotExited before
    voiv_file,      \* voivodeships.geojson exists in the temp directory
    nissued,        \* attempts the current fetch_layer call has issued, where counted
    rested          \* no request has gone out since the last sleep (or the start)

storevars == <<disk_meta, metadata, malformed, last_error>>
rvars == <<disk, uniqueIndex, conn, tiles, rpc, runs, tiles_list, workers,
           fstate, fresult, errors_count, processed, storevars>>
fvars == <<fz, fy, fy0, fn>>
mvars == <<mframes, mstage, final_gdf>>
mainvars == <<nregions, region, succeeded_total, failed_total, exit_status, voiv_file>>
lvars == <<stop_flag, nlayers, ntiles, nservers, max_attempts, lpc, layer, i, attempt,
           wait_time, frames, issued, kinds, exhausted, written, succeeded, failed,
           mainvars, rested, nissued>>
\* endpoint selection in two runs on the same inputs
VARIABLES pkind, pservers, pwork, pattempts, ppos, ppicks
pvars == <<pkind, pservers, pwork, pattempts, ppos, ppicks>>

\* fetch_save_voivodeships_geojson: the boundary-dataset fetch
VARIABLES bpc, bexists, bntiles, bnservers, bmax_attempts, bi, bissued, blast, bframes, bfile
bvars == <<bpc, bexists, bntiles, bnservers, bmax_attempts, bi, bissued, blast, bframes, bfile>>

\* run_downloader over long work lists, the store reduced to counts of writes
VARIABLES ctotal, cprocessed, cpending, cpc
cvars == <<ctotal, cprocessed, cpending, cpc>>

\* the raster fetchers of both downloaders on every kind of response body
VARIABLES sprogram, stiles_list, sprocessed, sresult, sstore, serrors_count, spc
svars == <<sprogram, stiles_list, sprocessed, sresult, sstore, serrors_count, spc>>

\* the threads of run_downloader: the pool threads and the thread in the loop
VARIABLES tworkers, ttotal, tpending, tfinished, tprocessed, pool, tmain
tvars == <<tworkers, ttotal, tpending, tfinished, tprocessed, pool, tmain>>

\* the partition of a region into sub-regions (osm_downloader.py 616-655, 127-153)
VARIABLES gkind, ggeom, gbounds, gmax_area, gtiles, gpc
gvars == <<gkind, ggeom, gbounds, gmax_area, gtiles, gpc>>

\* the merge applied to three partial result sets, nested and flat
VARIABLES aframes, aleft, aright, aflat, aagain, adone
avars == <<aframes, aleft, aright, aflat, aagain, adone>>

\* the except branch of fetch_layer on every kind of message (683-696)
VARIABLES emsg, eattempt, emax_attempts, ewait_time, epc
evars == <<emsg, eattempt, emax_attempts, ewait_time, epc>>

\* the filters and the dedup of the boundary fetch (174-229)
VARIABLES xraw, xi, xframes, xfile, xpc
xvars == <<xraw, xi, xframes, xfile, xpc>>

\* the viewer reading the file the dispatcher writes (mbview.py 18-40)
VARIABLES vtiles, vdisk, vreq, vresp
vvars == <<vtiles, vdisk, vreq, vresp>>

\* run_downloader with the order in which as_completed yields (downloader.py 30-56)
VARIABLES otiles_list, oresp, oworkers, ostate, ocompleted, osnapshot, oqueue, ostore,
          oerrors_count, opc
ovars == <<otiles_list, oresp, oworkers, ostate, ocompleted, osnapshot, oqueue, ostore,
           oerrors_count, opc>>

vars == <<rvars, fvars, mvars, lvars, pvars, bvars, cvars, svars, tvars, gvars, avars, evars,
          xvars, vvars, ovars>>
notR == <<fvars, mvars, lvars, pvars, bvars, cvars, svars, tvars, gvars, avars, evars, xvars, vvars, ovars>>
notF == <<rvars, mvars, lvars, pvars, bvars, cvars, svars, tvars, gvars, avars, evars, xvars, vvars, ovars>>
notM == <<rvars, fvars, lvars, pvars, bvars, cvars, svars, tvars, gvars, avars, evars, xvars, vvars, ovars>>
notL == <<rvars, fvars, mvars, pvars, bvars, cvars, svars, tvars, gvars, avars, evars, xvars, vvars, ovars>>
notP == <<rvars, fvars, mvars, lvars, bvars, cvars, svars, tvars, gvars, avars, evars, xvars, vvars, ovars>>
notB == <<rvars, fvars, mvars, lvars, pvars, cvars, svars, tvars, gvars, avars, evars, xvars, vvars, ovars>>
notC == <<rvars, fvars, mvars, lvars, pvars, bvars, svars, tvars, gvars, avars, evars, xvars, vvars, ovars>>
notS == <<rvars, fvars, mvars, lvars, pvars, bvars, cvars, tvars, gvars, avars, evars, xvars, vvars, ovars>>
notT == <<rvars, fvars, mvars, lvars, pvars, bvars, cvars, svars, gvars, avars, evars, xvars, vvars, ovars>>
notG == <<rvars, fvars, mvars, lvars, pvars, bvars, cvars, svars, tvars, avars, evars, xvars, vvars, ovars>>
notA == <<rvars, fvars, mvars, lvars, pvars, bvars, cvars, svars, tvars, gvars, evars, xvars, vvars, ovars>>
notE == <<rvars, fvars, mvars, lvars, pvars, bvars, cvars, svars, tvars, gvars, avars, xvars, vvars, ovars>>
notX == <<rvars, fvars, mvars, lvars, pvars, bvars, cvars, svars, tvars, gvars, avars, evars, vvars, ovars>>
notV == <<rvars, fvars, mvars, lvars, pvars, bvars, cvars, svars, tvars, gvars, avars, evars, xvars, ovars>>
notO == <<rvars, fvars, mvars, lvars, pvars, bvars, cvars, svars, tvars, gvars, avars, evars, xvars, vvars>>

(***************************************************************************)
(* Bounds                                                                  *)
(***************************************************************************)
MaxItems == 2       \* longest work list
MaxRuns == 2        \* invocations of main() on the same output file
MaxWorkers == 2     \* largest thread pool
MaxZoom == 4        \* zoom levels 0..MaxZoom given to flip_y
RowSlack == 2       \* rows tried beyond either end of 0..2^z-1

\* commit interval of the dispatcher loop
COMMIT_EVERY == 200

(***************************************************************************)
(* utils.py                                                                *)
(***************************************************************************)
\* the subtraction the other way round
flip_y_swapped(z, y) == y - (2^z - 1)

flip_y(z, y) == (2^z - 1) - y

(***************************************************************************)
(* Tiles, responses and payloads                                           *)
(***************************************************************************)
\* top-origin (XYZ) indices <<z, x, y>> a work list is drawn from
TileIndices == {<<1, 0, 1>>, <<2, 1, 0>>}

NoTile == <<0, 0, 0>>
None == [kind |-> "None", src |-> NoTile, v |-> "-"]

\* a response body: what the provider sent for the URL of tile src
Body(kind, src, v) == [kind |-> kind, src |-> src, v |-> v]

\* what requests.get can do for one tile: raise, or answer with a status and a body
Responses(tile) ==
    {[raised |-> TRUE, status |-> 0, body |-> None]}
    \cup {[raised |-> FALSE, status |-> 503, body |-> Body("html", tile, "-")]}
    \cup {[raised |-> FALSE, status |-> 200, body |-> b] :
            b \in {Body("image", tile, "a"), Body("image", tile, "b"),
                   Body("html", tile, "-"), Body("empty", tile, "-")}}

\* Python truthiness of the content slot: None and b'' are falsy
Truthy(content) == content.kind \notin {"None", "empty"}

\* GeoSatellite fetch_tile_content: (tile, content, error)
fetch_tile_content(tile, resp) ==
    IF resp.raised
    THEN [tile |-> tile, content |-> None, error |-> "str(e)"]
    ELSE IF resp.status = 200
         THEN IF resp.body.kind \in {"html", "ServiceException"}
              THEN [tile |-> tile, content |-> None, error |-> "None"]
              ELSE [tile |-> tile, content |-> resp.body, error |-> "None"]
         ELSE [tile |-> tile, content |-> None, error |-> "None"]

NoResult == [tile |-> NoTile, content |-> None, error |-> "None"]

(***************************************************************************)
(* storage.py: MBTilesStorage                                              *)
(***************************************************************************)
Row(z, x, y_tms, data) == [zoom_level |-> z, tile_column |-> x, tile_row |-> y_tms, tile_data |-> data]

KeyOf(r) == <<r.zoom_level, r.tile_column, r.tile_row>>

\* table tiles is a bag of rows: SQL keeps no order and allows equal rows
RowsWithKey(table, k) == {r \in BagToSet(table) : KeyOf(r) = k}

HasKey(table, k) == RowsWithKey(table, k) # {}

Insert(table, r) == table (+) SetToBag({r})

\* CREATE ... IF NOT EXISTS: whether the file has the unique index after _init_schema
_init_schema(hasIndex) == TRUE

\* INSERT without OR IGNORE and without regard to the index
save_tile_always_insert(table, hasIndex, z, x, y_tms, data) ==
    Insert(table, Row(z, x, y_tms, data))

\* INSERT OR REPLACE in place of INSERT OR IGNORE
save_tile_replace(table, hasIndex, z, x, y_tms, data) ==
    IF hasIndex /\ HasKey(table, <<z, x, y_tms>>)
    THEN SetToBag({r \in BagToSet(table) : KeyOf(r) # <<z, x, y_tms>>} \cup {Row(z, x, y_tms, data)})
    ELSE Insert(table, Row(z, x, y_tms, data))

\* the store converting the row itself
save_tile_flips(table, hasIndex, z, x, y_tms, data) ==
    IF hasIndex /\ HasKey(table, <<z, x, flip_y(z, y_tms)>>)
    THEN table
    ELSE Insert(table, Row(z, x, flip_y(z, y_tms), data))

\* INSERT OR IGNORE INTO tiles: the table after save_tile(z, x, y_tms, data);
\* the row is ignored when it conflicts with the unique index
save_tile(table, hasIndex, z, x, y_tms, data) ==
    IF hasIndex /\ HasKey(table, <<z, x, y_tms>>)
    THEN table
    ELSE Insert(table, Row(z, x, y_tms, data))

\* the six names save_metadata writes
MetaNames == {"name", "type", "version", "description", "format", "bounds"}

\* the values main() passes in its k-th run on the file: type and version are
\* literals, the others come from the run's arguments
meta(k) ==
    {[name |-> n,
      value |-> IF n = "type" THEN <<"overlay">>
                ELSE IF n = "version" THEN <<"1.2">>
                ELSE <<n, k>>] : n \in MetaNames}

MetaRowsWithName(table, n) == {r \in BagToSet(table) : r.name = n}

\* INSERT OR REPLACE INTO metadata: the table has no unique index and no
\* primary key, so no row ever conflicts and every row is added
save_metadata(table, rows) == table (+) SetToBag(rows)

(***************************************************************************)
(* downloader.py: run_downloader, driven by main.py                        *)
(***************************************************************************)
Futures == 1..Len(tiles_list)

Running == {f \in Futures : fstate[f] = "running"}

WorkLists == UNION {[1..n -> TileIndices] : n \in 1..MaxItems}

\* a loop body that tallies an error only when the fetch raised
LoopBody_raised_only(res) ==
    IF Truthy(res.content)
    THEN /\ tiles' = save_tile(tiles, uniqueIndex, res.tile[1], res.tile[2],
                               flip_y(res.tile[1], res.tile[3]), res.content)
         /\ errors_count' = errors_count
    ELSE /\ tiles' = tiles
         /\ errors_count' = IF res.error # "None" THEN errors_count + 1 ELSE errors_count

\* the body of the as_completed loop for one result, on the open connection
LoopBody(res) ==
    IF Truthy(res.content)
    THEN /\ tiles' = save_tile(tiles, uniqueIndex, res.tile[1], res.tile[2],
                               flip_y(res.tile[1], res.tile[3]), res.content)
         /\ errors_count' = errors_count
    ELSE /\ tiles' = tiles
         /\ errors_count' = errors_count + 1

\* main(): with MBTilesStorage(output) as storage -> __enter__, then
\* run_downloader submits every tile of the list to the pool
main_enter ==
    /\ rpc = "start"
    /\ runs < MaxRuns
    /\ ~malformed
    /\ runs' = runs + 1
    /\ conn' = "open"
    /\ uniqueIndex' = _init_schema(uniqueIndex)
    /\ tiles' = disk
    /\ metadata' = save_metadata(disk_meta, meta(runs'))
    /\ last_error' = "none"
    /\ UNCHANGED <<disk_meta, malformed>>
    /\ \E wl \in WorkLists, w \in 1..MaxWorkers :
          /\ tiles_list' = wl
          /\ workers' = w
          /\ fstate' = [f \in 1..Len(wl) |-> "pending"]
          /\ fresult' = [f \in 1..Len(wl) |-> NoResult]
    /\ errors_count' = 0
    /\ processed' = 0
    /\ rpc' = "loop"
    /\ UNCHANGED disk
    /\ UNCHANGED notR

\* a pool that starts a thread for every queued call
idle_thread_always(running, max_workers) == TRUE

\* line 30: ThreadPoolExecutor(max_workers=workers) has at most max_workers
\* threads, each running one call at a time; a queued call waits for one
idle_thread(running, max_workers) == running < max_workers

\* a pool thread takes the next queued future
worker_start(f) ==
    /\ rpc = "loop"
    /\ fstate[f] = "pending"
    /\ \A g \in Futures : g < f => fstate[g] # "pending"
    /\ idle_thread(Cardinality(Running), workers)
    /\ fstate' = [fstate EXCEPT ![f] = "running"]
    /\ UNCHANGED <<disk, uniqueIndex, conn, tiles, rpc, runs, tiles_list, workers,
                   fresult, errors_count, processed>>
    /\ UNCHANGED storevars
    /\ UNCHANGED notR

\* a dispatcher that queues the tile again when the fetch gave no content
future_done_resubmits(res) == IF Truthy(res.content) THEN "finished" ELSE "pending"

\* lines 31-34, 39: each tile is submitted once; when fetch_tile_content
\* returns, whatever it returns, the future is done and as_completed yields it
future_done(res) == "finished"

\* fetch_tile_content returns in the pool thread
worker_finish(f) ==
    /\ rpc = "loop"
    /\ fstate[f] = "running"
    /\ \E resp \in Responses(tiles_list[f]) :
          /\ fresult' = [fresult EXCEPT ![f] = fetch_tile_content(tiles_list[f], resp)]
          /\ fstate' = [fstate EXCEPT ![f] = future_done(fresult'[f])]
    /\ UNCHANGED <<disk, uniqueIndex, conn, tiles, rpc, runs, tiles_list, workers,
                   errors_count, processed>>
    /\ UNCHANGED storevars
    /\ UNCHANGED notR

\* a commit one completion late
periodic_commit_late(n) == n % (COMMIT_EVERY + 1) = 0

\* line 52: whether the loop commits after the n-th completion
periodic_commit(n) == n % COMMIT_EVERY = 0

\* one iteration of `for future in as_completed(...)`
as_completed_step(f) ==
    /\ rpc = "loop"
    /\ fstate[f] = "finished"
    /\ LoopBody(fresult[f])
    /\ processed' = processed + 1
    /\ disk' = IF periodic_commit(processed') THEN tiles' ELSE disk
    /\ disk_meta' = IF periodic_commit(processed') THEN metadata ELSE disk_meta
    /\ UNCHANGED <<metadata, malformed, last_error>>
    /\ fstate' = [fstate EXCEPT ![f] = "consumed"]
    /\ UNCHANGED <<uniqueIndex, conn, rpc, runs, tiles_list, workers, fresult>>
    /\ UNCHANGED notR

\* the loop is exhausted: the unconditional commit, run_downloader returns
run_downloader_return ==
    /\ rpc = "loop"
    /\ \A f \in Futures : fstate[f] = "consumed"
    /\ disk' = tiles
    /\ disk_meta' = metadata
    /\ rpc' = "returned"
    /\ UNCHANGED <<metadata, malformed, last_error>>
    /\ UNCHANGED <<uniqueIndex, conn, tiles, runs, tiles_list, workers, fstate,
                   fresult, errors_count, processed>>
    /\ UNCHANGED notR

\* a close that does not commit
__exit__without_commit ==
    /\ disk' = disk
    /\ disk_meta' = disk_meta
    /\ conn' = "closed"

\* storage.py lines 19-22: commit, then close
__exit__ ==
    /\ disk' = tiles
    /\ disk_meta' = metadata
    /\ conn' = "closed"

\* the with block is left normally; main() returns and the process ends
main_exit ==
    /\ rpc = "returned"
    /\ __exit__
    /\ UNCHANGED <<metadata, malformed, last_error>>
    /\ rpc' = "done"
    /\ tiles_list' = <<>>
    /\ workers' = 1
    /\ fstate' = <<>>
    /\ fresult' = <<>>
    /\ errors_count' = 0
    /\ processed' = 0
    /\ UNCHANGED <<uniqueIndex, tiles, runs>>
    /\ UNCHANGED notR

\* the program is started again with the same output file
main_again ==
    /\ rpc \in {"done", "crashed"}
    /\ runs < MaxRuns
    /\ rpc' = "start"
    /\ UNCHANGED <<disk, uniqueIndex, conn, tiles, runs, tiles_list, workers, fstate,
                   fresult, errors_count, processed>>
    /\ UNCHANGED storevars
    /\ UNCHANGED notR

\* an exception leaves the body of the with block (main.py 178-193): the pool
\* is shut down, __exit__ runs, main() prints the error and returns
body_raises ==
    /\ rpc = "loop"
    /\ __exit__
    /\ rpc' = "done"
    /\ last_error' = "body"
    /\ tiles_list' = <<>>
    /\ workers' = 1
    /\ fstate' = <<>>
    /\ fresult' = <<>>
    /\ errors_count' = 0
    /\ processed' = 0
    /\ UNCHANGED <<uniqueIndex, tiles, runs, metadata, malformed>>
    /\ UNCHANGED notR

\* storage.py lines 15-16: with synchronous=OFF and journal_mode=MEMORY the
\* rollback journal is in memory only; a process that dies while a
\* transaction is open can leave the file damaged
crash_outcomes(pending) == IF pending THEN BOOLEAN ELSE {FALSE}

\* the process dies with the store open: no __exit__, no commit
crash ==
    /\ conn = "open"
    /\ \E damaged \in crash_outcomes(tiles # disk \/ metadata # disk_meta) :
          malformed' = damaged
    /\ conn' = "closed"
    /\ rpc' = "crashed"
    /\ last_error' = "crash"
    /\ tiles' = disk
    /\ metadata' = disk_meta
    /\ tiles_list' = <<>>
    /\ workers' = 1
    /\ fstate' = <<>>
    /\ fresult' = <<>>
    /\ errors_count' = 0
    /\ processed' = 0
    /\ UNCHANGED <<disk, disk_meta, uniqueIndex, runs>>
    /\ UNCHANGED notR

\* main() on a damaged file: __enter__ raises sqlite3.DatabaseError in
\* _init_schema, main() prints the error and returns (main.py 178, 192-193)
main_enter_malformed ==
    /\ rpc = "start"
    /\ runs < MaxRuns
    /\ malformed
    /\ runs' = runs + 1
    /\ rpc' = "done"
    /\ last_error' = "open"
    /\ UNCHANGED <<disk, uniqueIndex, conn, tiles, tiles_list, workers, fstate, fresult,
                   errors_count, processed, disk_meta, metadata, malformed>>
    /\ UNCHANGED notR

\* save_tile on the closed store: cursor.execute raises
\* sqlite3.ProgrammingError, which save_tile catches and prints (lines 45-51)
late_save_tile ==
    /\ conn = "closed"
    /\ rpc = "done"
    /\ last_error' = "save_tile printed"
    /\ UNCHANGED <<disk, uniqueIndex, conn, tiles, rpc, runs, tiles_list, workers, fstate,
                   fresult, errors_count, processed, disk_meta, metadata, malformed>>
    /\ UNCHANGED notR

\* commit on the closed store: conn.commit raises sqlite3.ProgrammingError
late_commit ==
    /\ conn = "closed"
    /\ rpc = "done"
    /\ last_error' = "commit raised"
    /\ UNCHANGED <<disk, uniqueIndex, conn, tiles, rpc, runs, tiles_list, workers, fstate,
                   fresult, errors_count, processed, disk_meta, metadata, malformed>>
    /\ UNCHANGED notR

RInit ==
    /\ disk = EmptyBag
    /\ uniqueIndex = FALSE
    /\ conn = "closed"
    /\ tiles = EmptyBag
    /\ rpc = "start"
    /\ runs = 0
    /\ tiles_list = <<>>
    /\ workers = 1
    /\ fstate = <<>>
    /\ fresult = <<>>
    /\ errors_count = 0
    /\ processed = 0
    /\ disk_meta = EmptyBag
    /\ metadata = EmptyBag
    /\ malformed = FALSE
    /\ last_error = "none"

RNext ==
    \/ main_enter
    \/ \E f \in Futures : worker_start(f)
    \/ \E f \in Futures : worker_finish(f)
    \/ \E f \in Futures : as_completed_step(f)
    \/ run_downloader_return
    \/ main_exit
    \/ main_again

(***************************************************************************)
(* downloader.py: the commits of run_downloader over long work lists       *)
(***************************************************************************)
MaxIntervals == 2   \* full commit intervals in the longest work list

\* len(tiles_list): one below, at, and one above each multiple of the interval
Totals ==
    {k * COMMIT_EVERY + d : k \in 0..MaxIntervals, d \in {0 - 1, 0, 1}} \cap (1..(MaxIntervals * COMMIT_EVERY + 1))

CIdle == ctotal = 0 /\ cprocessed = 0 /\ cpending = 0 /\ cpc = "idle"

\* lines 21-37: every tile is submitted, the counters start at 0 on a store
\* with nothing pending
CInit ==
    /\ ctotal \in Totals
    /\ cprocessed = 0
    /\ cpending = 0
    /\ cpc = "loop"

\* lines 39-54: one completion; has_content is the truth value of content:
\* save_tile is called with it, the error branch writes nothing
count_completed_step ==
    /\ cpc = "loop"
    /\ cprocessed < ctotal
    /\ cprocessed' = cprocessed + 1
    /\ \E has_content \in BOOLEAN :
          LET written_now == IF has_content THEN cpending + 1 ELSE cpending
          IN  cpending' = IF periodic_commit(cprocessed') THEN 0 ELSE written_now
    /\ UNCHANGED <<ctotal, cpc>>
    /\ UNCHANGED notC

\* the function returning without its last commit
count_return_uncommitted ==
    /\ cpc = "loop"
    /\ cprocessed = ctotal
    /\ cpc' = "returned"
    /\ UNCHANGED <<ctotal, cprocessed, cpending>>
    /\ UNCHANGED notC

\* lines 56-60: the loop is exhausted, the unconditional commit, the return
count_return ==
    /\ cpc = "loop"
    /\ cprocessed = ctotal
    /\ cpending' = 0
    /\ cpc' = "returned"
    /\ UNCHANGED <<ctotal, cprocessed>>
    /\ UNCHANGED notC

\* lines 42-54 with a store that fails on the tile write: cursor.execute
\* raises sqlite3.Error inside save_tile, which catches and prints it
\* (storage.py 45-51); nothing is written and the loop goes on
save_tile_error ==
    /\ cpc = "loop"
    /\ cprocessed < ctotal
    /\ cprocessed' = cprocessed + 1
    /\ cpending' = IF periodic_commit(cprocessed') THEN 0 ELSE cpending
    /\ UNCHANGED <<ctotal, cpc>>
    /\ UNCHANGED notC

\* lines 42-53 with a store that fails on the periodic commit: conn.commit
\* raises sqlite3.Error (storage.py 53-54); nothing catches it in commit or
\* in run_downloader, so it leaves the loop and the function
periodic_commit_raises ==
    /\ cpc = "loop"
    /\ cprocessed < ctotal
    /\ periodic_commit(cprocessed + 1)
    /\ cprocessed' = cprocessed + 1
    /\ \E has_content \in BOOLEAN :
          cpending' = IF has_content THEN cpending + 1 ELSE cpending
    /\ cpc' = "raised"
    /\ UNCHANGED ctotal
    /\ UNCHANGED notC

(***************************************************************************)
(* The raster fetchers on every kind of response body                      *)
(* (GeoSatellite/src/downloader.py, GeoTiles/src/downloader.py)            *)
(***************************************************************************)
Programs == {"GeoSatellite", "GeoTiles"}

\* bodies a provider can send with status 200 beside those of Responses: a
\* WMS error document, a body with neither an image signature nor one of the
\* markers (a JSON or plain-text error, HTML whose <html tag comes after
\* byte 50), and an image in another format than the declared one
OtherBodies(tile) ==
    {Body("ServiceException", tile, "-"), Body("text", tile, "-"),
     Body("other_image", tile, "-")}

AllResponses(tile) ==
    Responses(tile)
    \cup {[raised |-> FALSE, status |-> 200, body |-> b] : b \in OtherBodies(tile)}

\* the body starts with the signature of the declared image format
HasSignature(content) == content.kind = "image"

\* GeoTiles fetch_tile_content: (tile, content, error); the body is kept
\* only when it starts with the PNG signature
osm_fetch_tile_content(tile, resp) ==
    IF resp.raised
    THEN [tile |-> tile, content |-> None, error |-> "str(e)"]
    ELSE IF resp.status = 200 /\ HasSignature(resp.body)
         THEN [tile |-> tile, content |-> resp.body, error |-> "None"]
         ELSE [tile |-> tile, content |-> None, error |-> "None"]

SIdle ==
    /\ sprogram = "none"
    /\ stiles_list = <<>>
    /\ sprocessed = 0
    /\ sresult = NoResult
    /\ sstore = EmptyBag
    /\ serrors_count = 0
    /\ spc = "idle"

\* run_downloader is entered with a work list and a freshly created store
SInit ==
    /\ sprogram \in Programs
    /\ stiles_list \in WorkLists
    /\ sprocessed = 0
    /\ sresult = NoResult
    /\ sstore = EmptyBag
    /\ serrors_count = 0
    /\ spc = "fetch"

\* GeoSatellite: the fetch of the next tile returns
satellite_fetch ==
    /\ sprogram = "GeoSatellite"
    /\ spc = "fetch"
    /\ sprocessed < Len(stiles_list)
    /\ \E resp \in AllResponses(stiles_list[sprocessed + 1]) :
          sresult' = fetch_tile_content(stiles_list[sprocessed + 1], resp)
    /\ spc' = "loop"
    /\ UNCHANGED <<sprogram, stiles_list, sprocessed, sstore, serrors_count>>
    /\ UNCHANGED notS

\* GeoTiles: the fetch of the next tile returns
osm_fetch ==
    /\ sprogram = "GeoTiles"
    /\ spc = "fetch"
    /\ sprocessed < Len(stiles_list)
    /\ \E resp \in AllResponses(stiles_list[sprocessed + 1]) :
          sresult' = osm_fetch_tile_content(stiles_list[sprocessed + 1], resp)
    /\ spc' = "loop"
    /\ UNCHANGED <<sprogram, stiles_list, sprocessed, sstore, serrors_count>>
    /\ UNCHANGED notS

\* the body of the as_completed loop for the result at hand: the same lines
\* in both programs
loop_step ==
    /\ spc = "loop"
    /\ IF Truthy(sresult.content)
       THEN /\ sstore' = save_tile(sstore, TRUE, sresult.tile[1], sresult.tile[2],
                                   flip_y(sresult.tile[1], sresult.tile[3]), sresult.content)
            /\ serrors_count' = serrors_count
       ELSE /\ sstore' = sstore
            /\ serrors_count' = serrors_count + 1
    /\ sprocessed' = sprocessed + 1
    /\ sresult' = NoResult
    /\ spc' = "fetch"
    /\ UNCHANGED <<sprogram, stiles_list>>
    /\ UNCHANGED notS

(***************************************************************************)
(* mbview.py: get_tile, on the file run_downloader writes                  *)
(***************************************************************************)
\* top-origin indices <<z, x, y>> of zoom levels 1 and 2, column 0
ViewIndices == {<<z, 0, y>> : z \in {1, 2}, y \in 0..3} \ {<<1, 0, 2>>, <<1, 0, 3>>}

Response(status, content) == [status |-> status, content |-> content]

NoResponse == Response(0, None)

\* a viewer that looks the row up under the y of the URL
get_tile_no_flip(table, z, x, y) ==
    LET rows == RowsWithKey(table, <<z, x, y>>)
    IN  IF rows = {} THEN {Response(404, None)}
        ELSE {Response(200, r.tile_data) : r \in rows}

\* lines 20-40: tms_y = (2**z - 1) - y, the SELECT on (z, x, tms_y), and
\* fetchone: the responses get_tile can give on the committed table
get_tile(table, z, x, y) ==
    LET tms_y == (2^z - 1) - y
        rows == RowsWithKey(table, <<z, x, tms_y>>)
    IN  IF rows = {} THEN {Response(404, None)}
        ELSE {Response(200, r.tile_data) : r \in rows}

VIdle == vtiles = EmptyBag /\ vdisk = EmptyBag /\ vreq = NoTile /\ vresp = NoResponse

\* a new file with the schema of _init_schema, and no request at hand
VInit == vtiles = EmptyBag /\ vdisk = EmptyBag /\ vreq = NoTile /\ vresp = NoResponse

\* downloader.py lines 39-44: the loop takes a result with content for a
\* tile of the work list, converts the row and calls save_tile
dispatcher_save_tile ==
    /\ vresp = NoResponse
    /\ \E tile \in ViewIndices, v \in {"a", "b"} :
          LET res == fetch_tile_content(tile, [raised |-> FALSE, status |-> 200,
                                               body |-> Body("image", tile, v)])
          IN  vtiles' = save_tile(vtiles, TRUE, res.tile[1], res.tile[2],
                                  flip_y(res.tile[1], res.tile[3]), res.content)
    /\ vtiles' # vtiles
    /\ UNCHANGED <<vdisk, vreq, vresp>>
    /\ UNCHANGED notV

\* downloader.py lines 52-56: a commit makes the rows visible to other connections
dispatcher_commit ==
    /\ vresp = NoResponse
    /\ vdisk # vtiles
    /\ vdisk' = vtiles
    /\ UNCHANGED <<vtiles, vreq, vresp>>
    /\ UNCHANGED notV

\* GET /{z}/{x}/{y}.png on the viewer, which opens its own connection
viewer_get_tile ==
    /\ vresp = NoResponse
    /\ \E t \in ViewIndices :
          /\ vreq' = t
          /\ vresp' \in get_tile(vdisk, t[1], t[2], t[3])
    /\ UNCHANGED <<vtiles, vdisk>>
    /\ UNCHANGED notV

\* the response is sent
viewer_responded ==
    /\ vresp # NoResponse
    /\ vreq' = NoTile
    /\ vresp' = NoResponse
    /\ UNCHANGED <<vtiles, vdisk>>
    /\ UNCHANGED notV

(***************************************************************************)
(* downloader.py: run_downloader and the order of as_completed             *)
(***************************************************************************)
OFutures == 1..Len(otiles_list)

ORunning == {f \in OFutures : ostate[f] = "running"}

\* what the fetch of one submitted item meets: an exception, or an image
OResponses(tile) ==
    {[raised |-> TRUE, status |-> 0, body |-> None]}
    \cup {[raised |-> FALSE, status |-> 200, body |-> Body("image", tile, v)] : v \in {"a", "b"}}

\* what future.result() gives for future f
oresult(f) == fetch_tile_content(otiles_list[f], oresp[f])

OIdle ==
    /\ otiles_list = <<>> /\ oresp = <<>> /\ oworkers = 1 /\ ostate = <<>>
    /\ ocompleted = <<>> /\ osnapshot = {} /\ oqueue = <<>> /\ ostore = EmptyBag
    /\ oerrors_count = 0 /\ opc = "idle"

\* lines 26-37: a new file, every tile of the list submitted, nothing iterated
OInit ==
    /\ \E wl \in WorkLists :
          /\ otiles_list = wl
          /\ \E rs \in [1..Len(wl) -> UNION {OResponses(t) : t \in TileIndices}] :
                /\ \A f \in 1..Len(wl) : rs[f] \in OResponses(wl[f])
                /\ oresp = rs
          /\ ostate = [f \in 1..Len(wl) |-> "pending"]
    /\ oworkers \in 1..MaxWorkers
    /\ ocompleted = <<>>
    /\ osnapshot = {}
    /\ oqueue = <<>>
    /\ ostore = EmptyBag
    /\ oerrors_count = 0
    /\ opc = "submitted"

\* a pool thread takes the next queued call
order_worker_start(f) ==
    /\ opc \in {"submitted", "iterating"}
    /\ ostate[f] = "pending"
    /\ \A g \in OFutures : g < f => ostate[g] # "pending"
    /\ idle_thread(Cardinality(ORunning), oworkers)
    /\ ostate' = [ostate EXCEPT ![f] = "running"]
    /\ UNCHANGED <<otiles_list, oresp, oworkers, ocompleted, osnapshot, oqueue, ostore,
                   oerrors_count, opc>>
    /\ UNCHANGED notO

\* fetch_tile_content returns in the pool thread: the future is finished;
\* once as_completed waits, the future is appended to the waiter's list
order_worker_finish(f) ==
    /\ opc \in {"submitted", "iterating"}
    /\ ostate[f] = "running"
    /\ ostate' = [ostate EXCEPT ![f] = "finished"]
    /\ ocompleted' = Append(ocompleted, f)
    /\ oqueue' = IF opc = "iterating" THEN Append(oqueue, f) ELSE oqueue
    /\ UNCHANGED <<otiles_list, oresp, oworkers, osnapshot, ostore, oerrors_count, opc>>
    /\ UNCHANGED notO

\* line 39: as_completed(future_to_tile) is entered after the last submit;
\* the futures finished by then are collected in a set
as_completed_called ==
    /\ opc = "submitted"
    /\ osnapshot' = {f \in OFutures : ostate[f] = "finished"}
    /\ opc' = "iterating"
    /\ UNCHANGED <<otiles_list, oresp, oworkers, ostate, ocompleted, oqueue, ostore,
                   oerrors_count>>
    /\ UNCHANGED notO

\* lines 40-50 for the future the iterator yields
order_loop_body(f) ==
    LET res == oresult(f)
    IN  /\ IF Truthy(res.content)
           THEN /\ ostore' = save_tile(ostore, TRUE, res.tile[1], res.tile[2],
                                       flip_y(res.tile[1], res.tile[3]), res.content)
                /\ oerrors_count' = oerrors_count
           ELSE /\ ostore' = ostore
                /\ oerrors_count' = oerrors_count + 1
        /\ ostate' = [ostate EXCEPT ![f] = "consumed"]

\* the iterator yields one of the futures that were finished when it was
\* entered: they are held in a set, whose order is not the order of completion
yield_finished(f) ==
    /\ opc = "iterating"
    /\ f \in osnapshot
    /\ order_loop_body(f)
    /\ osnapshot' = osnapshot \ {f}
    /\ UNCHANGED <<otiles_list, oresp, oworkers, ocompleted, oqueue, opc>>
    /\ UNCHANGED notO

\* the iterator yields the futures that finish while it waits, in the order
\* in which they finished
yield_completed ==
    /\ opc = "iterating"
    /\ osnapshot = {}
    /\ oqueue # <<>>
    /\ order_loop_body(Head(oqueue))
    /\ oqueue' = Tail(oqueue)
    /\ UNCHANGED <<otiles_list, oresp, oworkers, ocompleted, osnapshot, opc>>
    /\ UNCHANGED notO

\* the loop is exhausted: line 56 and the return
order_return ==
    /\ opc = "iterating"
    /\ \A f \in OFutures : ostate[f] = "consumed"
    /\ opc' = "returned"
    /\ UNCHANGED <<otiles_list, oresp, oworkers, ostate, ocompleted, osnapshot, oqueue,
                   ostore, oerrors_count>>
    /\ UNCHANGED notO

(***************************************************************************)
(* downloader.py: the threads of run_downloader                            *)
(***************************************************************************)
\* len(tiles_list): short lists, and one item more than a commit interval
PoolTotals == (1..MaxItems) \cup {COMMIT_EVERY + 1}

PoolThreads == 1..tworkers

\* a pool thread that writes the tile it fetched
fetch_done_saves(threads, w) == [threads EXCEPT ![w] = "save_tile"]

\* lines 12-17: fetch_tile_content returns its triple and the pool thread
\* is free again; it has not touched the store
fetch_done(threads, w) == [threads EXCEPT ![w] = "idle"]

\* lines 50-53: where the loop thread goes after counting the n-th completion
after_count(n) == IF periodic_commit(n) THEN "commit" ELSE "as_completed"

\* the calls on the store
StoreCalls == {"save_tile", "commit", "final_commit"}

\* the threads that are inside a call on the store
InStore ==
    {w \in PoolThreads : pool[w] \in StoreCalls}
    \cup (IF tmain \in StoreCalls THEN {0} ELSE {})

TIdle ==
    /\ tworkers = 0
    /\ ttotal = 0
    /\ tpending = 0
    /\ tfinished = 0
    /\ tprocessed = 0
    /\ pool = <<>>
    /\ tmain = "idle"

\* lines 21-37: every tile is submitted; the loop thread is at as_completed
TInit ==
    /\ tworkers \in 1..MaxWorkers
    /\ ttotal \in PoolTotals
    /\ tpending = ttotal
    /\ tfinished = 0
    /\ tprocessed = 0
    /\ pool = [w \in 1..tworkers |-> "idle"]
    /\ tmain = "as_completed"

\* a pool thread takes a queued call of fetch_tile_content
pool_start(w) ==
    /\ pool[w] = "idle"
    /\ tpending > 0
    /\ tpending' = tpending - 1
    /\ pool' = [pool EXCEPT ![w] = "fetch_tile_content"]
    /\ UNCHANGED <<tworkers, ttotal, tfinished, tprocessed, tmain>>
    /\ UNCHANGED notT

\* fetch_tile_content returns in the pool thread: the future is done
pool_finish(w) ==
    /\ pool[w] = "fetch_tile_content"
    /\ pool' = fetch_done(pool, w)
    /\ tfinished' = tfinished + 1
    /\ UNCHANGED <<tworkers, ttotal, tpending, tprocessed, tmain>>
    /\ UNCHANGED notT

\* lines 39-50: as_completed yields a done future and the loop thread reads
\* its result: with content it enters save_tile, without it tallies the
\* error and counts the completion
take_result ==
    /\ tmain = "as_completed"
    /\ tfinished > 0
    /\ tfinished' = tfinished - 1
    /\ \E has_content \in BOOLEAN :
          IF has_content
          THEN /\ tmain' = "save_tile"
               /\ tprocessed' = tprocessed
          ELSE /\ tprocessed' = tprocessed + 1
               /\ tmain' = after_count(tprocessed')
    /\ UNCHANGED <<tworkers, ttotal, tpending, pool>>
    /\ UNCHANGED notT

\* lines 44-52: save_tile returns, the completion is counted
save_tile_returns ==
    /\ tmain = "save_tile"
    /\ tprocessed' = tprocessed + 1
    /\ tmain' = after_count(tprocessed')
    /\ UNCHANGED <<tworkers, ttotal, tpending, tfinished, pool>>
    /\ UNCHANGED notT

\* lines 53-54: the periodic commit returns
commit_returns ==
    /\ tmain = "commit"
    /\ tmain' = "as_completed"
    /\ UNCHANGED <<tworkers, ttotal, tpending, tfinished, tprocessed, pool>>
    /\ UNCHANGED notT

\* lines 39, 56: every future has been yielded, the loop thread enters the
\* last commit
loop_exhausted ==
    /\ tmain = "as_completed"
    /\ tprocessed = ttotal
    /\ tmain' = "final_commit"
    /\ UNCHANGED <<tworkers, ttotal, tpending, tfinished, tprocessed, pool>>
    /\ UNCHANGED notT

\* lines 56-60: the last commit returns, then run_downloader
final_commit_returns ==
    /\ tmain = "final_commit"
    /\ tmain' = "returned"
    /\ UNCHANGED <<tworkers, ttotal, tpending, tfinished, tprocessed, pool>>
    /\ UNCHANGED notT

(***************************************************************************)
(* osm_downloader.py: the partition of a region into sub-regions           *)
(*                                                                         *)
(* Coordinates are points of a lattice whose step is 15 degrees, so that   *)
(* latitude 6 is the pole. A geometry is the set of its lattice points.    *)
(* Cell edges are fractions: a tuple <<W, S, E, N>> over a denominator d   *)
(* stands for the bounds (W/d, S/d, E/d, N/d). The arithmetic is exact.    *)
(***************************************************************************)
MaxLon == 3         \* longitudes 0..MaxLon
MaxLat == 4         \* latitudes 0..MaxLat
MaxArea == 12       \* largest max_query_area_size

\* length units per lattice step (111320.0 m per degree in the source)
m_per_deg_lat == 2

Lattice == (0..MaxLon) \X (0..MaxLat)

\* shapely box(minx, miny, maxx, maxy)
box(w, s, e, n) == {p \in Lattice : w <= p[1] /\ p[1] <= e /\ s <= p[2] /\ p[2] <= n}

\* geom.bounds: (minx, miny, maxx, maxy)
bounds(geom) ==
    <<CHOOSE x \in {p[1] : p \in geom} : \A p \in geom : x <= p[1],
      CHOOSE y \in {p[2] : p \in geom} : \A p \in geom : y <= p[2],
      CHOOSE x \in {p[1] : p \in geom} : \A p \in geom : x >= p[1],
      CHOOSE y \in {p[2] : p \in geom} : \A p \in geom : y >= p[2]>>

\* math.cos(math.radians(lat)) for the latitude p/q lattice steps, as the
\* fraction cos_num / cos_den: the rational approximation
\* (pi^2 - 4x^2) / (pi^2 + x^2), within 0.002 of the cosine up to the pole
cos_num(p, q) == 144 * q * q - 4 * p * p

cos_den(p, q) == 144 * q * q + p * p

\* lines 620-623: area = (e - w) * m_per_deg_lon * (n - s) * m_per_deg_lat of
\* the bounds b over d, with lat_mid = (s + n) / 2, as area_num / area_den
area_num(b, d) ==
    (b[3] - b[1]) * m_per_deg_lat * (b[4] - b[2]) * m_per_deg_lat * cos_num(b[2] + b[4], 2 * d)

area_den(b, d) == d * d * cos_den(b[2] + b[4], 2 * d)

\* a comparison that sends an area equal to the limit to the grid
area_fits_strict(b, d, max_area) == area_num(b, d) < max_area * area_den(b, d)

\* line 629: area <= max_area
area_fits(b, d, max_area) == area_num(b, d) <= max_area * area_den(b, d)

\* int(math.ceil(math.sqrt(num / den))) for num >= 0 and den > 0
ceil_sqrt(num, den) ==
    CHOOSE k \in 0..num : k * k * den >= num /\ (k = 0 \/ (k - 1) * (k - 1) * den < num)

\* line 634: what area / max_area, math.sqrt and math.ceil do when the
\* area is above the limit: division by zero raises, the root of a
\* negative number raises, the root of -0.0 is -0.0
grid_raises(b, max_area) ==
    IF max_area = 0 THEN "ZeroDivisionError"
    ELSE IF max_area < 0 /\ area_num(b, 1) > 0 THEN "ValueError"
    ELSE "None"

\* line 634: n_tiles = max(2, int(math.ceil(math.sqrt(area / max_area))))
n_tiles(b, max_area) ==
    LET root == IF max_area < 0 THEN 0
                ELSE ceil_sqrt(area_num(b, 1), area_den(b, 1) * max_area)
    IN  IF root > 2 THEN root ELSE 2

\* lines 644-649: the box of grid cell (i, j), over the denominator nt
cell(b, nt, ci, cj) ==
    <<b[1] * nt + ci * (b[3] - b[1]), b[2] * nt + cj * (b[4] - b[2]),
      b[1] * nt + (ci + 1) * (b[3] - b[1]), b[2] * nt + (cj + 1) * (b[4] - b[2])>>

\* an intersection that leaves out the east and the north edge of the box
intersection_half_open(geom, c, d) ==
    {p \in geom : /\ c[1] <= p[1] * d /\ p[1] * d < c[3]
                  /\ c[2] <= p[2] * d /\ p[2] * d < c[4]}

\* line 651: geom.intersection(tile_box), the box closed
intersection(geom, c, d) ==
    {p \in geom : /\ c[1] <= p[1] * d /\ p[1] * d <= c[3]
                  /\ c[2] <= p[2] * d /\ p[2] * d <= c[4]}

\* a geometry that fills its bounding rectangle is the rectangle: box(*bbox)
\* of a bbox run, or a region of that shape
is_rectangle(geom) ==
    LET b == bounds(geom)
    IN  b[1] < b[3] /\ b[2] < b[4] /\ geom = box(b[1], b[2], b[3], b[4])

\* the bounds, over d, of what the rectangle b and the closed box c over d
\* have in common
clip(b, c, d) ==
    <<IF c[1] > b[1] * d THEN c[1] ELSE b[1] * d, IF c[2] > b[2] * d THEN c[2] ELSE b[2] * d,
      IF c[3] < b[3] * d THEN c[3] ELSE b[3] * d, IF c[4] < b[4] * d THEN c[4] ELSE b[4] * d>>

\* line 652: tile_poly.is_empty. A rectangle and a box have a point in
\* common when their spans meet in both directions, whether or not a
\* lattice point lies there; any other geometry is its points
is_empty(geom, c, d) ==
    IF is_rectangle(geom)
    THEN LET m == clip(bounds(geom), c, d) IN m[1] > m[3] \/ m[2] > m[4]
    ELSE intersection(geom, c, d) = {}

\* a sub-region: its bounds over den, and its geometry
Tile(b, d, geom) == [bounds |-> b, den |-> d, geom |-> geom]

\* lines 642-643 (140-141): for i in range(n_tiles): for j in range(n_tiles),
\* as the k-th pair of the double loop, k from 1
\* the outer index running fastest
grid_i_inner(k, nt) == (k - 1) % nt

grid_i(k, nt) == (k - 1) \div nt

grid_j(k, nt) == (k - 1) % nt

\* fetch_layer lines 616-655: the tiles of polygon_geom, or the exception
partition_polygon(geom, max_area) ==
    LET b == bounds(geom)
    IN  IF area_fits(b, 1, max_area)
        THEN [raised |-> "None", tiles |-> <<Tile(b, 1, geom)>>]
        ELSE IF grid_raises(b, max_area) # "None"
        THEN [raised |-> grid_raises(b, max_area), tiles |-> <<>>]
        ELSE LET nt == n_tiles(b, max_area)
                 tile_box(k) == cell(b, nt, grid_i(k, nt), grid_j(k, nt))
                 tile_poly(k) == intersection(geom, tile_box(k), nt)
                 kept == SelectSeq([k \in 1..(nt * nt) |-> k],
                                   LAMBDA k : ~is_empty(geom, tile_box(k), nt))
             IN  [raised |-> "None",
                  tiles |-> [m \in 1..Len(kept) |->
                                IF is_rectangle(geom)
                                THEN Tile(clip(b, tile_box(kept[m]), nt), nt, tile_poly(kept[m]))
                                ELSE Tile(bounds(tile_poly(kept[m])), 1, tile_poly(kept[m]))]]

\* fetch_save_voivodeships_geojson lines 127-153: the tiles of the bbox, each
\* a tuple of bounds, or the exception
partition_bbox(b, max_area) ==
    IF area_fits(b, 1, max_area)
    THEN [raised |-> "None", tiles |-> <<Tile(b, 1, box(b[1], b[2], b[3], b[4]))>>]
    ELSE IF grid_raises(b, max_area) # "None"
    THEN [raised |-> grid_raises(b, max_area), tiles |-> <<>>]
    ELSE LET nt == n_tiles(b, max_area)
             c(k) == cell(b, nt, grid_i(k, nt), grid_j(k, nt))
         IN  [raised |-> "None",
              tiles |-> [k \in 1..(nt * nt) |->
                            Tile(c(k), nt, intersection(box(b[1], b[2], b[3], b[4]), c(k), nt))]]

\* the lattice points from p on, column by column: every set of one to
\* three points is drawn once
NotBefore(p) == {q \in Lattice : q[1] > p[1] \/ (q[1] = p[1] /\ q[2] >= p[2])}

GIdle ==
    /\ gkind = "none"
    /\ ggeom = {}
    /\ gbounds = <<0, 0, 0, 0>>
    /\ gmax_area = 1
    /\ gtiles = <<>>
    /\ gpc = "idle"

\* the region: for fetch_layer the geometry of a voivodeship or box(bbox),
\* for the boundary fetch the bbox; max_area comes from the configuration
\* file and is not validated anywhere
GInit ==
    /\ gkind \in {"fetch_layer", "fetch_save_voivodeships_geojson"}
    /\ \E p1 \in Lattice : \E p2 \in NotBefore(p1) : \E p3 \in NotBefore(p2), filled \in BOOLEAN :
          LET b == bounds({p1, p2, p3})
          IN  /\ gbounds = b
              /\ ggeom = IF filled \/ gkind = "fetch_save_voivodeships_geojson"
                         THEN box(b[1], b[2], b[3], b[4])
                         ELSE {p1, p2, p3}
    /\ gmax_area \in (0 - 1)..MaxArea
    /\ gtiles = <<>>
    /\ gpc = "partition"

\* fetch_layer lines 616-655
layer_partition ==
    /\ gkind = "fetch_layer"
    /\ gpc = "partition"
    /\ LET r == partition_polygon(ggeom, gmax_area)
       IN  /\ gtiles' = r.tiles
           /\ gpc' = IF r.raised = "None" THEN "loop" ELSE r.raised
    /\ UNCHANGED <<gkind, ggeom, gbounds, gmax_area>>
    /\ UNCHANGED notG

\* fetch_save_voivodeships_geojson lines 127-153
boundary_partition ==
    /\ gkind = "fetch_save_voivodeships_geojson"
    /\ gpc = "partition"
    /\ LET r == partition_bbox(gbounds, gmax_area)
       IN  /\ gtiles' = r.tiles
           /\ gpc' = IF r.raised = "None" THEN "loop" ELSE r.raised
    /\ UNCHANGED <<gkind, ggeom, gbounds, gmax_area>>
    /\ UNCHANGED notG

\* lines 658-673 (165-174): the loop over the tiles issues its first request
first_request ==
    /\ gpc = "loop"
    /\ gtiles # <<>>
    /\ gpc' = "requested"
    /\ UNCHANGED <<gkind, ggeom, gbounds, gmax_area, gtiles>>
    /\ UNCHANGED notG

(***************************************************************************)
(* flip_y applied to a row, and again to the result                        *)
(***************************************************************************)
FIdle == fz = 0 /\ fy = 0 /\ fy0 = 0 /\ fn = 0

FInit ==
    /\ fz \in 0..MaxZoom
    /\ fy0 \in (0 - RowSlack)..(2^MaxZoom - 1 + RowSlack)
    /\ fy = fy0
    /\ fn = 0

apply_flip_y ==
    /\ fn < 2
    /\ fy' = flip_y(fz, fy)
    /\ fn' = fn + 1
    /\ UNCHANGED <<fz, fy0>>
    /\ UNCHANGED notF


(***************************************************************************)
(* osm_downloader.py: the merge of the fetched frames                      *)
(***************************************************************************)
MaxFrames == 2      \* partial result sets merged at once
MaxRecs == 2        \* records of one partial result set

\* provider identities; NaN is the missing osmid of a concatenated frame
OsmIds == {1, 2}
NaN == <<>>
IdValues == {NaN} \cup {<<n>> : n \in OsmIds}

\* a GeoDataFrame: whether it has a column osmid, and its rows in order.  Row r
\* of the frame fetched for sub-region t carries the attributes <<t, r>>.
Gdf(t, ids, col) ==
    [osmid_column |-> col,
     rows |-> [r \in 1..Len(ids) |-> [osmid |-> ids[r], attr |-> <<t, r>>]]]

EmptyGdf == [osmid_column |-> FALSE, rows |-> <<>>]

\* the non-empty frames features_from_polygon can return: with the column osmid
\* every row has an identity, without it every osmid is missing after concat
GdfShapes(maxrecs) ==
    {sh \in [col : BOOLEAN, ids : UNION {[1..n -> IdValues] : n \in 1..maxrecs}] :
        \A r \in 1..Len(sh.ids) : (sh.ids[r] = NaN) <=> ~sh.col}

\* pd.concat(frames, ignore_index=True): the rows in order, the union of the columns
RECURSIVE concat_rows(_)
concat_rows(fs) == IF fs = <<>> THEN <<>> ELSE Head(fs).rows \o concat_rows(Tail(fs))

\* a concat that keeps only the columns every frame has (join='inner')
concat_inner(fs) ==
    [osmid_column |-> \A t \in 1..Len(fs) : fs[t].osmid_column,
     rows |-> concat_rows(fs)]

concat(fs) ==
    [osmid_column |-> \E t \in 1..Len(fs) : fs[t].osmid_column,
     rows |-> concat_rows(fs)]

\* DataFrame.drop_duplicates(subset=['osmid']), keep='first'; two missing
\* values count as equal
RECURSIVE drop_from(_, _)
drop_from(rows, seen) ==
    IF rows = <<>> THEN <<>>
    ELSE IF Head(rows).osmid \in seen
         THEN drop_from(Tail(rows), seen)
         ELSE <<Head(rows)>> \o drop_from(Tail(rows), seen \cup {Head(rows).osmid})

RECURSIVE keep_last_from(_)
keep_last_from(rows) ==
    IF rows = <<>> THEN <<>>
    ELSE IF \E n \in 2..Len(rows) : rows[n].osmid = Head(rows).osmid
         THEN keep_last_from(Tail(rows))
         ELSE <<Head(rows)>> \o keep_last_from(Tail(rows))

drop_duplicates_keep_last(rows) == keep_last_from(rows)

drop_duplicates(rows) == drop_from(rows, {})

\* lines 709-714 (and 198-201): concat, then dedup when the column exists
merge(fs) ==
    LET all == concat(fs)
    IN  IF all.osmid_column
        THEN [all EXCEPT !.rows = drop_duplicates(all.rows)]
        ELSE all

MIdle == mframes = <<>> /\ mstage = "idle" /\ final_gdf = EmptyGdf

\* up to MaxFrames frames of up to MaxRecs records each, in partition order
MInit ==
    /\ \E n \in 1..MaxFrames : \E c \in [1..n -> GdfShapes(MaxRecs)] :
          mframes = [t \in 1..n |-> Gdf(t, c[t].ids, c[t].col)]
    /\ mstage = "input"
    /\ final_gdf = EmptyGdf

merge_frames ==
    /\ mstage = "input"
    /\ final_gdf' = merge(mframes)
    /\ mstage' = "merged"
    /\ UNCHANGED mframes
    /\ UNCHANGED notM

(***************************************************************************)
(* The merge of lines 709-714 applied to three partial result sets         *)
(***************************************************************************)
AIdle ==
    /\ aframes = <<>>
    /\ aleft = EmptyGdf
    /\ aright = EmptyGdf
    /\ aflat = EmptyGdf
    /\ aagain = EmptyGdf
    /\ adone = {}

\* three partial result sets A, B, C in partition order, each of up to
\* MaxRecs records
AInit ==
    /\ \E c \in [1..3 -> GdfShapes(MaxRecs)] :
          aframes = [t \in 1..3 |-> Gdf(t, c[t].ids, c[t].col)]
    /\ aleft = EmptyGdf
    /\ aright = EmptyGdf
    /\ aflat = EmptyGdf
    /\ aagain = EmptyGdf
    /\ adone = {}

\* merge(merge(A, B), C)
merge_left ==
    /\ "left" \notin adone
    /\ aleft' = merge(<<merge(<<aframes[1], aframes[2]>>), aframes[3]>>)
    /\ adone' = adone \cup {"left"}
    /\ UNCHANGED <<aframes, aright, aflat, aagain>>
    /\ UNCHANGED notA

\* merge(A, merge(B, C))
merge_right ==
    /\ "right" \notin adone
    /\ aright' = merge(<<aframes[1], merge(<<aframes[2], aframes[3]>>)>>)
    /\ adone' = adone \cup {"right"}
    /\ UNCHANGED <<aframes, aleft, aflat, aagain>>
    /\ UNCHANGED notA

\* merge(A, B, C), as fetch_layer calls it
merge_flat ==
    /\ "flat" \notin adone
    /\ aflat' = merge(aframes)
    /\ adone' = adone \cup {"flat"}
    /\ UNCHANGED <<aframes, aleft, aright, aagain>>
    /\ UNCHANGED notA

\* the merge of the merged set alone
merge_again ==
    /\ "flat" \in adone
    /\ "again" \notin adone
    /\ aagain' = merge(<<aflat>>)
    /\ adone' = adone \cup {"again"}
    /\ UNCHANGED <<aframes, aleft, aright, aflat>>
    /\ UNCHANGED notA

(***************************************************************************)
(* osm_downloader.py: OSMDownloader.download_layers and fetch_layer        *)
(***************************************************************************)
MaxLayers == 2      \* len(layer_names)
MaxTiles == 2       \* sub-regions of the partition
MaxAttempts == 3    \* download_settings.max_attempts
MaxServers == 2     \* len(overpass_servers)

\* the default waits of download_settings
SLEEP_ON_TIMEOUT == 30
SLEEP_ON_RATE_LIMIT == 45
SLEEP_ON_ERROR == 10

\* what str(e).lower() of a raised exception mentions:
\* timeout: "504" or "timeout"; rate: "rate limit" or "429"
ErrorMsgs == [timeout : BOOLEAN, rate : BOOLEAN]

\* lines 687-692: the class of a failure and its wait
error_class(msg) ==
    IF msg.timeout THEN "timeout" ELSE IF msg.rate THEN "rate_limit" ELSE "other"

wait_for(msg) ==
    IF msg.timeout THEN SLEEP_ON_TIMEOUT
    ELSE IF msg.rate THEN SLEEP_ON_RATE_LIMIT
    ELSE SLEEP_ON_ERROR

\* the four substrings lines 687 and 689 look for in str(e).lower()
Substrings == {"504", "timeout", "rate limit", "429"}

\* lines 687, 689: the two membership tests on the message
mentions(found) ==
    [timeout |-> "504" \in found \/ "timeout" \in found,
     rate |-> "rate limit" \in found \/ "429" \in found]

\* line 694: the handler sleeps unless the attempt was the last
sleeps(a, last) == a < last

EIdle ==
    /\ emsg = {} /\ eattempt = 1 /\ emax_attempts = 1 /\ ewait_time = 0 /\ epc = "idle"

\* attempt eattempt of emax_attempts raised an exception whose lowered
\* message holds the substrings emsg
EInit ==
    /\ emsg \in SUBSET Substrings
    /\ emax_attempts \in 1..MaxAttempts
    /\ eattempt \in 1..emax_attempts
    /\ ewait_time = 0
    /\ epc = "except"

\* lines 683-694: the wait is chosen, and slept unless the attempt was the last
except_handler ==
    /\ epc = "except"
    /\ ewait_time' = wait_for(mentions(emsg))
    /\ epc' = IF sleeps(eattempt, emax_attempts) THEN "sleep" ELSE "loop_over"
    /\ UNCHANGED <<emsg, eattempt, emax_attempts>>
    /\ UNCHANGED notE

\* line 696: time.sleep(wait_time) returns, the loop takes the next attempt
sleep_returns ==
    /\ epc = "sleep"
    /\ eattempt' = eattempt + 1
    /\ epc' = "attempt"
    /\ UNCHANGED <<emsg, emax_attempts, ewait_time>>
    /\ UNCHANGED notE

\* the frames a sub-region fetch may return in this specification: one
\* record with identity 1, or two records of a frame without the column
FetchedShapes ==
    {[col |-> TRUE, ids |-> <<<<1>>>>], [col |-> FALSE, ids |-> <<NaN, NaN>>]}

NoMsg == [timeout |-> FALSE, rate |-> FALSE]

\* what ox.features_from_polygon can do for sub-region t
Outcomes(t) ==
    {[kind |-> "data", gdf |-> Gdf(t, sh.ids, sh.col), msg |-> NoMsg] : sh \in FetchedShapes}
    \cup {[kind |-> "empty", gdf |-> EmptyGdf, msg |-> NoMsg]}
    \cup {[kind |-> "raise", gdf |-> EmptyGdf, msg |-> m] : m \in ErrorMsgs}

\* the rotation of the boundary fetch (line 166) used in the layer fetch
current_server_by_tile(t, a, n) == t % n

\* line 666: the index into servers for attempt a of sub-region t
current_server(t, a, n) == (t + a) % n

\* line 663: whether the attempt loop breaks before issuing the attempt
stop_check_missing(flag) == FALSE

stop_check(flag) == flag

\* where fetch_layer goes when the attempt loop of sub-region t is over
\* (lines 698-703): the pause before the next sub-region, or the merge
after_tile(t) == IF t < ntiles THEN "tile_pause" ELSE "merge"

\* where download_layers goes when layer l is settled (lines 810-814)
after_layer(l) == IF l < nlayers THEN "layer_pause" ELSE "done"

\* an empty result handled like a failed attempt
after_response_retry_empty(kind, t, a, last) ==
    IF kind = "data" THEN after_tile(t)
    ELSE IF a < last THEN "backoff" ELSE after_tile(t)

\* a loop that allows one attempt more than max_attempts
after_response_one_more(kind, t, a, last) ==
    IF kind \in {"data", "empty"} THEN after_tile(t)
    ELSE IF a <= last THEN "backoff" ELSE after_tile(t)

\* where the attempt loop goes after attempt a of sub-region t, of at most
\* last attempts (lines 675-696): data and an empty result break out of the
\* loop, an exception sleeps and retries unless the attempt was the last
after_response(kind, t, a, last) ==
    IF kind \in {"data", "empty"} THEN after_tile(t)
    ELSE IF a < last THEN "backoff" ELSE after_tile(t)

NotWritten == [layer |-> 0, rows |-> <<>>, kmz |-> FALSE]

\* a fetch_layer that reports what the packaging reports, frames or not
fetch_layer_returns_kmz(fs, kmz_ok) == kmz_ok

\* lines 703-750: False without frames (703-705), False when geojson_to_kmz
\* reports no success (745-747), True otherwise (750)
fetch_layer_returns(fs, kmz_ok) == fs # <<>> /\ kmz_ok

\* the attempts of a call are counted only in SpecAttempts
NotCounted == 0 - 1

\* lines 606-607 (155-156): if not servers
no_servers(n) == n = 0

\* download_layers takes the next layer name and calls fetch_layer (794-805,
\* 606-612); an unknown name is failed and skips the pause (795-798)
begin_layer ==
    /\ lpc = "next_layer"
    /\ layer' = layer + 1
    /\ \E known \in BOOLEAN :
          IF ~known
          THEN /\ failed' = Append(failed, layer')
               /\ lpc' = IF layer' < nlayers THEN "next_layer" ELSE "done"
          ELSE IF no_servers(nservers)
          THEN /\ failed' = Append(failed, layer')
               /\ lpc' = after_layer(layer')
          ELSE /\ failed' = failed
               /\ lpc' = "attempt"
    \* the locals of the previous fetch_layer call are gone
    /\ written' = NotWritten
    /\ frames' = <<>>
    /\ issued' = <<>>
    /\ kinds' = {}
    /\ exhausted' = 0
    /\ i' = 1
    /\ attempt' = 1
    /\ nissued' = IF nissued = NotCounted THEN NotCounted ELSE 0
    /\ UNCHANGED <<stop_flag, nlayers, ntiles, nservers, max_attempts, wait_time,
                   succeeded>>
    /\ UNCHANGED <<mainvars, rested>>
    /\ UNCHANGED notL

\* lines 663-673: the stop check, the server choice, the request goes out
next_attempt ==
    /\ lpc = "attempt"
    /\ IF stop_check(stop_flag)
       THEN /\ lpc' = after_tile(i)
            /\ UNCHANGED <<issued, rested, nissued>>
       ELSE /\ issued' = Append(issued, current_server(i, attempt, nservers))
            /\ nissued' = IF nissued = NotCounted THEN NotCounted ELSE nissued + 1
            /\ lpc' = "inflight"
            /\ rested' = FALSE
    /\ UNCHANGED <<stop_flag, nlayers, ntiles, nservers, max_attempts, layer, i, attempt,
                   wait_time, frames, kinds, exhausted, written, succeeded, failed>>
    /\ UNCHANGED mainvars
    /\ UNCHANGED notL

\* lines 673-696: features_from_polygon returns or raises
response ==
    /\ lpc = "inflight"
    /\ \E out \in Outcomes(i) :
          /\ lpc' = after_response(out.kind, i, attempt, max_attempts)
          /\ \/ /\ out.kind = "data"
                /\ frames' = Append(frames, out.gdf)
                /\ kinds' = kinds \cup {"data"}
                /\ UNCHANGED <<wait_time, exhausted>>
             \/ /\ out.kind = "empty"
                /\ kinds' = kinds \cup {"empty"}
                /\ UNCHANGED <<frames, wait_time, exhausted>>
             \/ /\ out.kind = "raise"
                /\ kinds' = kinds \cup {error_class(out.msg)}
                /\ wait_time' = wait_for(out.msg)
                /\ exhausted' = IF attempt >= max_attempts /\ kinds' = {"timeout"}
                                THEN exhausted + 1 ELSE exhausted
                /\ UNCHANGED frames
    /\ UNCHANGED <<stop_flag, nlayers, ntiles, nservers, max_attempts, layer, i, attempt,
                   issued, written, succeeded, failed>>
    /\ UNCHANGED <<mainvars, rested>>
    /\ UNCHANGED nissued
    /\ UNCHANGED notL

\* line 696: time.sleep(wait_time) is over, the next attempt of the same sub-region
backoff_done ==
    /\ lpc = "backoff"
    /\ attempt' = attempt + 1
    /\ lpc' = "attempt"
    /\ UNCHANGED <<stop_flag, nlayers, ntiles, nservers, max_attempts, layer, i,
                   wait_time, frames, issued, kinds, exhausted, written, succeeded, failed>>
    /\ rested' = TRUE
    /\ UNCHANGED mainvars
    /\ UNCHANGED nissued
    /\ UNCHANGED notL

\* lines 699-701: the pause between sub-regions is over, the next sub-region
tile_pause_done ==
    /\ lpc = "tile_pause"
    /\ i' = i + 1
    /\ attempt' = 1
    /\ issued' = <<>>
    /\ kinds' = {}
    /\ lpc' = "attempt"
    /\ UNCHANGED <<stop_flag, nlayers, ntiles, nservers, max_attempts, layer,
                   wait_time, frames, exhausted, written, succeeded, failed>>
    /\ rested' = TRUE
    /\ UNCHANGED mainvars
    /\ UNCHANGED nissued
    /\ UNCHANGED notL

\* lines 703-750 and 805-808: no frames fails the layer; otherwise merge, write
\* the GeoJSON, package it, and report what the packaging reports
merge_and_write ==
    /\ lpc = "merge"
    /\ \E kmz_ok \in BOOLEAN :
          /\ written' = IF frames = <<>> THEN written
                        ELSE [layer |-> layer, rows |-> merge(frames).rows, kmz |-> kmz_ok]
          /\ IF fetch_layer_returns(frames, kmz_ok)
             THEN succeeded' = Append(succeeded, layer) /\ failed' = failed
             ELSE failed' = Append(failed, layer) /\ succeeded' = succeeded
    /\ lpc' = after_layer(layer)
    /\ UNCHANGED <<stop_flag, nlayers, ntiles, nservers, max_attempts, layer, i, attempt,
                   wait_time, frames, issued, kinds, exhausted>>
    /\ UNCHANGED <<mainvars, rested>>
    /\ UNCHANGED nissued
    /\ UNCHANGED notL

\* lines 810-812: the pause between layers is over
layer_pause_done ==
    /\ lpc = "layer_pause"
    /\ lpc' = "next_layer"
    /\ UNCHANGED <<stop_flag, nlayers, ntiles, nservers, max_attempts, layer, i, attempt,
                   wait_time, frames, issued, kinds, exhausted, written, succeeded, failed>>
    /\ rested' = TRUE
    /\ UNCHANGED mainvars
    /\ UNCHANGED nissued
    /\ UNCHANGED notL

\* whoever holds the stop flag sets it, at any moment of the run
set_stop ==
    /\ ~stop_flag
    /\ lpc # "done"
    /\ stop_flag' = TRUE
    /\ UNCHANGED <<nlayers, ntiles, nservers, max_attempts, lpc, layer, i, attempt,
                   wait_time, frames, issued, kinds, exhausted, written, succeeded, failed>>
    /\ UNCHANGED <<mainvars, rested>>
    /\ UNCHANGED nissued
    /\ UNCHANGED notL

\* main() has not called sys.exit
NotExited == 0 - 1

LIdle ==
    /\ stop_flag = FALSE /\ nlayers = 1 /\ ntiles = 1 /\ nservers = 1 /\ max_attempts = 1
    /\ lpc = "idle" /\ layer = 0 /\ i = 1 /\ attempt = 1 /\ wait_time = 0
    /\ frames = <<>> /\ issued = <<>> /\ kinds = {} /\ exhausted = 0
    /\ written = NotWritten /\ succeeded = <<>> /\ failed = <<>>
    /\ nregions = 1 /\ region = 1 /\ succeeded_total = <<>> /\ failed_total = <<>>
    /\ exit_status = NotExited
    /\ voiv_file = FALSE
    /\ rested = TRUE
    /\ nissued = NotCounted

LInitCommon ==
    /\ stop_flag = FALSE
    /\ nlayers \in 1..MaxLayers
    /\ ntiles \in 1..MaxTiles
    /\ nservers \in 0..MaxServers
    /\ max_attempts \in 1..MaxAttempts
    /\ layer = 0
    /\ i = 1
    /\ attempt = 1
    /\ wait_time = 0
    /\ frames = <<>>
    /\ issued = <<>>
    /\ kinds = {}
    /\ exhausted = 0
    /\ written = NotWritten
    /\ succeeded = <<>>
    /\ failed = <<>>
    /\ region = 1
    /\ succeeded_total = <<>>
    /\ failed_total = <<>>
    /\ exit_status = NotExited
    /\ rested = TRUE

\* one download_layers call: a bbox run (main line 954), or a run over one region
LInit ==
    /\ LInitCommon /\ nregions = 1 /\ lpc = "next_layer" /\ voiv_file = FALSE
    /\ nissued = NotCounted

\* one fetch_layer call with its attempts counted: one layer, one endpoint
AttemptsInit ==
    /\ LInitCommon /\ nregions = 1 /\ lpc = "next_layer" /\ voiv_file = FALSE
    /\ nlayers = 1
    /\ nservers = 1
    /\ nissued = 0

MaxRegions == 2     \* len(region_names)

\* a run over several regions
RegionsInit ==
    /\ LInitCommon
    /\ nregions \in 2..MaxRegions
    /\ lpc = "download_layers"
    /\ voiv_file \in BOOLEAN
    /\ nissued = NotCounted

\* runs of main() without endpoints, a bbox run or a run over regions, in
\* every configuration; and, beside them, the runs with one endpoint, two
\* layers and two attempts
EndpointsInit ==
    /\ LInit \/ RegionsInit
    /\ \/ no_servers(nservers)
       \/ nservers = 1 /\ nlayers = 2 /\ max_attempts = 2 /\ nregions <= 2

\* main lines 949-952: the totals take the lists the call returned, and
\* download_layers is called for the next region
next_region ==
    /\ lpc = "done"
    /\ region < nregions
    /\ region' = region + 1
    /\ succeeded_total' = succeeded_total \o succeeded
    /\ failed_total' = failed_total \o failed
    /\ succeeded' = <<>>
    /\ failed' = <<>>
    /\ layer' = 0
    /\ lpc' = "download_layers"
    /\ UNCHANGED <<stop_flag, nlayers, ntiles, nservers, max_attempts, i, attempt, wait_time,
                   frames, issued, kinds, exhausted, written, nregions, rested,
                   exit_status, voiv_file>>
    /\ UNCHANGED nissued
    /\ UNCHANGED notL

\* download_layers lines 756-781 for a region: fetch_save_voivodeships_geojson
\* returns at once when the file exists; without servers it calls sys.exit(1)
\* before any request; otherwise it fetches the boundaries and writes the
\* file, or calls sys.exit(1) when nothing came back. Then the region's
\* geometry is read from the file: when that fails every layer is returned
\* as failed.
download_layers_head ==
    /\ lpc = "download_layers"
    /\ \E fetched \in BOOLEAN, geometry_ok \in BOOLEAN, nt \in 1..MaxTiles :
          IF ~voiv_file /\ (no_servers(nservers) \/ ~fetched)
          THEN /\ exit_status' = 1
               /\ lpc' = "exited"
               /\ rested' = IF no_servers(nservers) THEN rested ELSE FALSE
               /\ UNCHANGED <<voiv_file, failed, ntiles>>
          ELSE /\ voiv_file' = TRUE
               /\ rested' = IF voiv_file THEN rested ELSE FALSE
               /\ exit_status' = exit_status
               /\ IF geometry_ok
                  THEN /\ lpc' = "next_layer"
                       /\ ntiles' = nt
                       /\ failed' = failed
                  ELSE /\ lpc' = "done"
                       /\ ntiles' = ntiles
                       /\ failed' = [l \in 1..nlayers |-> l]
    /\ UNCHANGED <<stop_flag, nlayers, nservers, max_attempts, layer, i, attempt, wait_time,
                   frames, issued, kinds, exhausted, written, succeeded,
                   nregions, region, succeeded_total, failed_total>>
    /\ UNCHANGED nissued
    /\ UNCHANGED notL

\* a status that reports success whatever failed
exit_code_zero(failures) == 0

\* main line 965: the status given to sys.exit
exit_code(failures) == IF failures = <<>> THEN 0 ELSE 1

\* main lines 951-965: the totals take the lists of the last download_layers
\* call, the summary is printed, and the process exits
sys_exit ==
    /\ lpc = "done"
    /\ region = nregions
    /\ succeeded_total' = succeeded_total \o succeeded
    /\ failed_total' = failed_total \o failed
    /\ exit_status' = exit_code(failed_total')
    /\ lpc' = "exited"
    /\ UNCHANGED <<stop_flag, nlayers, ntiles, nservers, max_attempts, layer, i, attempt,
                   wait_time, frames, issued, kinds, exhausted, written, succeeded, failed,
                   nregions, region, rested, voiv_file>>
    /\ UNCHANGED nissued
    /\ UNCHANGED notL

(***************************************************************************)
(* Endpoint selection of the three fetchers, run twice on the same inputs  *)
(***************************************************************************)
Runs == {1, 2}

\* fetch_save_voivodeships_geojson line 166: servers[i % n_servers]
boundary_server(t, n) == t % n

\* GeoTiles fetch_tile_content line 9: random.choice(servers) can return any
\* element of the list
random_choice(n) == 0..(n - 1)

\* the position after <<t, a>> when sub-region t gets last attempts
next_pos(t, a, last) == IF a < last THEN <<t, a + 1>> ELSE <<t + 1, 1>>

PIdle ==
    /\ pkind = "none" /\ pservers = 1 /\ pwork = 0 /\ pattempts = <<>>
    /\ ppos = [r \in Runs |-> <<1, 1>>] /\ ppicks = [r \in Runs |-> <<>>]

\* both runs get the same fetcher, the same endpoint list, the same work
\* list, and the same fetch outcomes: pattempts[t] attempts for sub-region t
PInit ==
    /\ pkind \in {"vector", "boundary", "raster"}
    /\ pservers \in 1..MaxServers
    /\ pwork \in 1..MaxTiles
    /\ pattempts \in [1..pwork -> 1..MaxAttempts]
    /\ pkind # "vector" => \A t \in 1..pwork : pattempts[t] = 1
    /\ ppos = [r \in Runs |-> <<1, 1>>]
    /\ ppicks = [r \in Runs |-> <<>>]

\* fetch_layer lines 662-670 in run r: the endpoint of the next attempt
select_vector(r) ==
    /\ pkind = "vector"
    /\ ppos[r][1] <= pwork
    /\ ppicks' = [ppicks EXCEPT ![r] = Append(@, current_server(ppos[r][1], ppos[r][2], pservers))]
    /\ ppos' = [ppos EXCEPT ![r] = next_pos(@[1], @[2], pattempts[@[1]])]
    /\ UNCHANGED <<pkind, pservers, pwork, pattempts>>
    /\ UNCHANGED notP

\* fetch_save_voivodeships_geojson lines 165-174 in run r: one fetch per sub-region
select_boundary(r) ==
    /\ pkind = "boundary"
    /\ ppos[r][1] <= pwork
    /\ ppicks' = [ppicks EXCEPT ![r] = Append(@, boundary_server(ppos[r][1], pservers))]
    /\ ppos' = [ppos EXCEPT ![r] = next_pos(@[1], @[2], 1)]
    /\ UNCHANGED <<pkind, pservers, pwork, pattempts>>
    /\ UNCHANGED notP

\* GeoTiles fetch_tile_content lines 7-11 in run r: one fetch per tile
select_raster(r) ==
    /\ pkind = "raster"
    /\ ppos[r][1] <= pwork
    /\ \E srv \in random_choice(pservers) :
          ppicks' = [ppicks EXCEPT ![r] = Append(@, srv)]
    /\ ppos' = [ppos EXCEPT ![r] = next_pos(@[1], @[2], 1)]
    /\ UNCHANGED <<pkind, pservers, pwork, pattempts>>
    /\ UNCHANGED notP

(***************************************************************************)
(* osm_downloader.py: fetch_save_voivodeships_geojson                      *)
(***************************************************************************)
MaxGrid == 2        \* largest n_tiles of the n_tiles x n_tiles grid

\* len(tiles), lines 137-152: the bounding box alone, or a full square grid
BoundaryTileCounts == {1} \cup {n * n : n \in 2..MaxGrid}

\* where the loop goes after sub-region t (lines 188-193)
boundary_after_tile(t) == IF t < bntiles THEN "tile_pause" ELSE "finish"

BIdle ==
    /\ bpc = "idle" /\ bexists = FALSE /\ bntiles = 1 /\ bnservers = 1 /\ bmax_attempts = 1
    /\ bi = 1 /\ bissued = <<>> /\ blast = "none" /\ bframes = <<>> /\ bfile = <<>>

\* the configuration and the file system the function is called with
BInit ==
    /\ bpc = "start"
    /\ bexists \in BOOLEAN
    /\ bntiles \in BoundaryTileCounts
    /\ bnservers \in 0..MaxServers
    /\ bmax_attempts \in 1..MaxAttempts
    /\ bi = 1
    /\ bissued = <<>>
    /\ blast = "none"
    /\ bframes = <<>>
    /\ bfile = <<>>

\* lines 114-163: an existing file returns at once, an empty server list exits
boundary_begin ==
    /\ bpc = "start"
    /\ bpc' = IF bexists THEN "returned" ELSE IF bnservers = 0 THEN "exit1" ELSE "request"
    /\ UNCHANGED <<bexists, bntiles, bnservers, bmax_attempts, bi, bissued, blast, bframes, bfile>>
    /\ UNCHANGED notB

\* lines 165-174: the one request of sub-region bi goes out
boundary_request ==
    /\ bpc = "request"
    /\ bissued' = Append(bissued, [tile |-> bi, server |-> boundary_server(bi, bnservers)])
    /\ bpc' = "inflight"
    /\ UNCHANGED <<bexists, bntiles, bnservers, bmax_attempts, bi, blast, bframes, bfile>>
    /\ UNCHANGED notB

\* lines 174-186: features_from_bbox returns or raises; data is what is left
\* non-empty by the admin_level filter; an exception is printed
boundary_response ==
    /\ bpc = "inflight"
    /\ \E out \in Outcomes(bi) :
          /\ blast' = out.kind
          /\ bframes' = IF out.kind = "data" THEN Append(bframes, out.gdf) ELSE bframes
    /\ bpc' = boundary_after_tile(bi)
    /\ UNCHANGED <<bexists, bntiles, bnservers, bmax_attempts, bi, bissued, bfile>>
    /\ UNCHANGED notB

\* lines 188-191: the pause between sub-regions is over
boundary_pause_done ==
    /\ bpc = "tile_pause"
    /\ bi' = bi + 1
    /\ blast' = "none"
    /\ bpc' = "request"
    /\ UNCHANGED <<bexists, bntiles, bnservers, bmax_attempts, bissued, bframes, bfile>>
    /\ UNCHANGED notB

\* lines 193-230: no frames exits; otherwise concat, dedup, the name filter,
\* exit when nothing passes the filter, else write the file
boundary_finish ==
    /\ bpc = "finish"
    /\ IF bframes = <<>>
       THEN bpc' = "exit1" /\ UNCHANGED <<bfile, bexists>>
       ELSE \E polish \in BOOLEAN :
               IF polish
               THEN /\ bfile' = merge(bframes).rows
                    /\ bexists' = TRUE
                    /\ bpc' = "returned"
               ELSE bpc' = "exit1" /\ UNCHANGED <<bfile, bexists>>
    /\ UNCHANGED <<bntiles, bnservers, bmax_attempts, bi, bissued, blast, bframes>>
    /\ UNCHANGED notB

(***************************************************************************)
(* fetch_save_voivodeships_geojson: the filters and the dedup (174-229)    *)
(***************************************************************************)
\* the values of the two columns the filters read: admin_level, and
\* whether name contains 'wojewodztwo'
AdminLevels == {"4", "6"}
Names == {"wojewodztwo", "other"}

\* the records features_from_bbox returns for sub-region t: record r has an
\* identity, an admin_level, a name, and attributes of its own
RawFrame(t, recs) ==
    [osmid_column |-> TRUE,
     rows |-> [r \in 1..Len(recs) |->
                  [osmid |-> <<recs[r][1]>>, admin_level |-> recs[r][2],
                   name |-> recs[r][3], attr |-> <<t, r>>]]]

RawShapes == UNION {[1..n -> OsmIds \X AdminLevels \X Names] : n \in 1..MaxRecs}

\* lines 176-177: gdf[gdf['admin_level'] == '4']
admin_level_filter(rows) == SelectSeq(rows, LAMBDA r : r.admin_level = "4")

\* lines 209-219: name contains 'wojewodztwo'; the ISO3166-2 test that
\* follows keeps every row that passed this one
name_filter(rows) == SelectSeq(rows, LAMBDA r : r.name = "wojewodztwo")

XIdle == xraw = <<>> /\ xi = 1 /\ xframes = <<>> /\ xfile = <<>> /\ xpc = "idle"

\* what the provider returns for each of the MaxFrames sub-regions
XInit ==
    /\ \E c \in [1..MaxFrames -> RawShapes] :
          xraw = [t \in 1..MaxFrames |-> RawFrame(t, c[t])]
    /\ xi = 1
    /\ xframes = <<>>
    /\ xfile = <<>>
    /\ xpc = "loop"

\* lines 165-191 for sub-region xi: the admin_level filter, and the frame
\* is kept when rows are left
boundary_tile ==
    /\ xpc = "loop"
    /\ LET gdf == [xraw[xi] EXCEPT !.rows = admin_level_filter(@)]
       IN  xframes' = IF gdf.rows # <<>> THEN Append(xframes, gdf) ELSE xframes
    /\ IF xi < Len(xraw)
       THEN xi' = xi + 1 /\ xpc' = "loop"
       ELSE xi' = xi /\ xpc' = "finish"
    /\ UNCHANGED <<xraw, xfile>>
    /\ UNCHANGED notX

\* lines 193-229: no frames exits; concat, drop_duplicates, then the name
\* filter; nothing left exits, else the rows are written
boundary_write ==
    /\ xpc = "finish"
    /\ IF xframes = <<>>
       THEN xpc' = "exit1" /\ xfile' = xfile
       ELSE LET polish_voivodeships == name_filter(merge(xframes).rows)
            IN  IF polish_voivodeships = <<>>
                THEN xpc' = "exit1" /\ xfile' = xfile
                ELSE xpc' = "returned" /\ xfile' = polish_voivodeships
    /\ UNCHANGED <<xraw, xi, xframes>>
    /\ UNCHANGED notX

(***************************************************************************)
(* Specifications                                                          *)
(***************************************************************************)
Init == RInit /\ FIdle /\ MIdle /\ LIdle /\ PIdle /\ BIdle /\ CIdle /\ SIdle /\ TIdle /\ GIdle /\ AIdle /\ EIdle /\ XIdle /\ VIdle /\ OIdle

Next == RNext

Spec == Init /\ [][Next]_vars

NextSession ==
    \/ RNext
    \/ body_raises
    \/ crash
    \/ main_enter_malformed
    \/ late_save_tile
    \/ late_commit

SpecSession == Init /\ [][NextSession]_vars

InitFlip == FInit /\ RInit /\ MIdle /\ LIdle /\ PIdle /\ BIdle /\ CIdle /\ SIdle /\ TIdle /\ GIdle /\ AIdle /\ EIdle /\ XIdle /\ VIdle /\ OIdle

NextFlip == apply_flip_y

SpecFlip == InitFlip /\ [][NextFlip]_vars

InitMerge == MInit /\ RInit /\ FIdle /\ LIdle /\ PIdle /\ BIdle /\ CIdle /\ SIdle /\ TIdle /\ GIdle /\ AIdle /\ EIdle /\ XIdle /\ VIdle /\ OIdle

NextMerge == merge_frames

SpecMerge == InitMerge /\ [][NextMerge]_vars

InitAssoc == AInit /\ RInit /\ FIdle /\ MIdle /\ LIdle /\ PIdle /\ BIdle /\ CIdle /\ SIdle /\ TIdle /\ GIdle /\ EIdle /\ XIdle /\ VIdle /\ OIdle

NextAssoc ==
    \/ merge_left
    \/ merge_right
    \/ merge_flat
    \/ merge_again

SpecAssoc == InitAssoc /\ [][NextAssoc]_vars

InitLayer == LInit /\ RInit /\ FIdle /\ MIdle /\ PIdle /\ BIdle /\ CIdle /\ SIdle /\ TIdle /\ GIdle /\ AIdle /\ EIdle /\ XIdle /\ VIdle /\ OIdle

NextLayer ==
    \/ begin_layer
    \/ next_attempt
    \/ response
    \/ backoff_done
    \/ tile_pause_done
    \/ merge_and_write
    \/ layer_pause_done
    \/ set_stop

SpecLayer == InitLayer /\ [][NextLayer]_vars

InitBackoff == EInit /\ RInit /\ FIdle /\ MIdle /\ LIdle /\ PIdle /\ BIdle /\ CIdle /\ SIdle /\ TIdle /\ GIdle /\ AIdle /\ XIdle /\ VIdle /\ OIdle

NextBackoff ==
    \/ except_handler
    \/ sleep_returns

SpecBackoff == InitBackoff /\ [][NextBackoff]_vars

InitAttempts == AttemptsInit /\ RInit /\ FIdle /\ MIdle /\ PIdle /\ BIdle /\ CIdle /\ SIdle /\ TIdle /\ GIdle /\ AIdle /\ EIdle /\ XIdle /\ VIdle /\ OIdle

\* the steps of the one call; the stop flag may be set at any moment
NextAttempts ==
    \/ begin_layer
    \/ next_attempt
    \/ response
    \/ backoff_done
    \/ tile_pause_done
    \/ merge_and_write
    \/ set_stop

\* the thread in fetch_layer keeps running: every fetch returns or raises,
\* every sleep ends
FetchLayerRuns ==
    \/ begin_layer
    \/ next_attempt
    \/ response
    \/ backoff_done
    \/ tile_pause_done
    \/ merge_and_write

SpecAttempts == InitAttempts /\ [][NextAttempts]_vars /\ WF_vars(FetchLayerRuns)

InitRegions == RegionsInit /\ RInit /\ FIdle /\ MIdle /\ PIdle /\ BIdle /\ CIdle /\ SIdle /\ TIdle /\ GIdle /\ AIdle /\ EIdle /\ XIdle /\ VIdle /\ OIdle

NextRegions ==
    \/ begin_layer
    \/ next_attempt
    \/ response
    \/ backoff_done
    \/ tile_pause_done
    \/ merge_and_write
    \/ layer_pause_done
    \/ set_stop
    \/ next_region
    \/ download_layers_head
    \/ sys_exit

SpecRegions == InitRegions /\ [][NextRegions]_vars

InitEndpoints == EndpointsInit /\ RInit /\ FIdle /\ MIdle /\ PIdle /\ BIdle /\ CIdle /\ SIdle /\ TIdle /\ GIdle /\ AIdle /\ EIdle /\ XIdle /\ VIdle /\ OIdle

SpecEndpoints == InitEndpoints /\ [][NextRegions]_vars

InitCommit == CInit /\ RInit /\ FIdle /\ MIdle /\ LIdle /\ PIdle /\ BIdle /\ SIdle /\ TIdle /\ GIdle /\ AIdle /\ EIdle /\ XIdle /\ VIdle /\ OIdle

NextCommit ==
    \/ count_completed_step
    \/ count_return

SpecCommit == InitCommit /\ [][NextCommit]_vars

NextStoreFailure ==
    \/ count_completed_step
    \/ save_tile_error
    \/ periodic_commit_raises
    \/ count_return

SpecStoreFailure == InitCommit /\ [][NextStoreFailure]_vars

InitSelect == PInit /\ RInit /\ FIdle /\ MIdle /\ LIdle /\ BIdle /\ CIdle /\ SIdle /\ TIdle /\ GIdle /\ AIdle /\ EIdle /\ XIdle /\ VIdle /\ OIdle

NextSelect ==
    \/ \E r \in Runs : select_vector(r)
    \/ \E r \in Runs : select_boundary(r)
    \/ \E r \in Runs : select_raster(r)

SpecSelect == InitSelect /\ [][NextSelect]_vars

InitBoundary == BInit /\ RInit /\ FIdle /\ MIdle /\ LIdle /\ PIdle /\ CIdle /\ SIdle /\ TIdle /\ GIdle /\ AIdle /\ EIdle /\ XIdle /\ VIdle /\ OIdle

NextBoundary ==
    \/ boundary_begin
    \/ boundary_request
    \/ boundary_response
    \/ boundary_pause_done
    \/ boundary_finish

SpecBoundary == InitBoundary /\ [][NextBoundary]_vars

InitFilter == XInit /\ RInit /\ FIdle /\ MIdle /\ LIdle /\ PIdle /\ BIdle /\ CIdle /\ SIdle /\ TIdle /\ GIdle /\ AIdle /\ EIdle /\ VIdle /\ OIdle

NextFilter ==
    \/ boundary_tile
    \/ boundary_write

SpecFilter == InitFilter /\ [][NextFilter]_vars

InitFetch == SInit /\ RInit /\ FIdle /\ MIdle /\ LIdle /\ PIdle /\ BIdle /\ CIdle /\ TIdle /\ GIdle /\ AIdle /\ EIdle /\ XIdle /\ VIdle /\ OIdle

NextFetch ==
    \/ satellite_fetch
    \/ osm_fetch
    \/ loop_step

SpecFetch == InitFetch /\ [][NextFetch]_vars

InitThreads == TInit /\ RInit /\ FIdle /\ MIdle /\ LIdle /\ PIdle /\ BIdle /\ CIdle /\ SIdle /\ GIdle /\ AIdle /\ EIdle /\ XIdle /\ VIdle /\ OIdle

NextThreads ==
    \/ \E w \in PoolThreads : pool_start(w)
    \/ \E w \in PoolThreads : pool_finish(w)
    \/ take_result
    \/ save_tile_returns
    \/ commit_returns
    \/ loop_exhausted
    \/ final_commit_returns

SpecThreads == InitThreads /\ [][NextThreads]_vars

InitOrder == OInit /\ RInit /\ FIdle /\ MIdle /\ LIdle /\ PIdle /\ BIdle /\ CIdle /\ SIdle /\ TIdle /\ GIdle /\ AIdle /\ EIdle /\ XIdle /\ VIdle

NextOrder ==
    \/ \E f \in OFutures : order_worker_start(f)
    \/ \E f \in OFutures : order_worker_finish(f)
    \/ as_completed_called
    \/ \E f \in OFutures : yield_finished(f)
    \/ yield_completed
    \/ order_return

SpecOrder == InitOrder /\ [][NextOrder]_vars

InitViewer == VInit /\ RInit /\ FIdle /\ MIdle /\ LIdle /\ PIdle /\ BIdle /\ CIdle /\ SIdle /\ TIdle /\ GIdle /\ AIdle /\ EIdle /\ XIdle /\ OIdle

NextViewer ==
    \/ dispatcher_save_tile
    \/ dispatcher_commit
    \/ viewer_get_tile
    \/ viewer_responded

SpecViewer == InitViewer /\ [][NextViewer]_vars

InitPartition == GInit /\ RInit /\ FIdle /\ MIdle /\ LIdle /\ PIdle /\ BIdle /\ CIdle /\ SIdle /\ TIdle /\ AIdle /\ EIdle /\ XIdle /\ VIdle /\ OIdle

NextPartition ==
    \/ layer_partition
    \/ boundary_partition
    \/ first_request

SpecPartition == InitPartition /\ [][NextPartition]_vars

(***************************************************************************)
(* Properties of the tile store and the dispatcher (Spec)                  *)
(***************************************************************************)
\* the key under which the store must hold top-origin tile t
ExpectedKey(t) == <<t[1], t[2], (2^t[1] - 1) - t[3]>>

\* rows of the table, copies counted, whose key is k
RowCount(table, k) == BagCardinality([r \in RowsWithKey(table, k) |-> table[r]])

StoredKeys(table) == {KeyOf(r) : r \in BagToSet(table)}

Consumed == {f \in Futures : fstate[f] = "consumed"}

Valid(f) == Truthy(fresult[f].content)

Distinct(list) == \A f, g \in 1..Len(list) : f # g => list[f] # list[g]

\* C1: in every state the tiles table, as the open connection sees it and as
\* committed to the file, holds at most one row per (zoom_level, tile_column,
\* tile_row), whatever was submitted, in whatever run.
C1_AtMostOneRowPerKey ==
    /\ \A k \in StoredKeys(tiles) : RowCount(tiles, k) = 1
    /\ \A k \in StoredKeys(disk) : RowCount(disk, k) = 1

\* C1 witness: in a second run on the same file the dispatcher has submitted
\* the same index twice with different payloads.
C1_Witness ==
    /\ rpc = "returned"
    /\ runs = 2
    /\ \E f, g \in Consumed :
          /\ f # g
          /\ tiles_list[f] = tiles_list[g]
          /\ Valid(f) /\ Valid(g)
          /\ fresult[f].content # fresult[g].content
          /\ HasKey(tiles, ExpectedKey(tiles_list[f]))

\* C2: first write wins.  A loop iteration that saves a payload for an index
\* the store already holds changes neither the rows under that key nor the
\* row count, whatever the new payload.
C2_FirstWriteWins ==
    [][\A f \in Futures :
          (/\ rpc = "loop"
           /\ fstate[f] = "finished"
           /\ fstate'[f] = "consumed"
           /\ Valid(f)
           /\ HasKey(tiles, ExpectedKey(tiles_list[f])))
          => /\ RowsWithKey(tiles', ExpectedKey(tiles_list[f]))
                  = RowsWithKey(tiles, ExpectedKey(tiles_list[f]))
             /\ BagCardinality(tiles') = BagCardinality(tiles)]_vars

\* C2 witness: after a close and re-open, a different payload was saved for an
\* index committed by the earlier run, and the store still holds the first.
C2_Witness ==
    /\ rpc = "loop"
    /\ runs = 2
    /\ \E f \in Consumed :
          /\ Valid(f)
          /\ HasKey(disk, ExpectedKey(tiles_list[f]))
          /\ \A r \in RowsWithKey(tiles, ExpectedKey(tiles_list[f])) :
                r.tile_data # fresult[f].content

C9_RowConvertedOnce ==
    \A r \in BagToSet(tiles) \cup BagToSet(disk) : KeyOf(r) = ExpectedKey(r.tile_data.src)

\* C9 witness: the store holds a tile whose stored row differs from the row
\* it was fetched with.
C9_Witness ==
    /\ rpc = "returned"
    /\ \E r \in BagToSet(tiles) : r.tile_row # r.tile_data.src[3]

(***************************************************************************)
(* Properties of flip_y (SpecFlip)                                         *)
(***************************************************************************)
\* C10: for every zoom z >= 0 and every row y, flip_y(z, flip_y(z, y)) = y.
C10_FlipRoundTrip == fn = 2 => fy = fy0

\* C10 witness: flip_y was applied twice at a zoom above 0 to a row outside
\* the pyramid.
C10_Witness == fn = 2 /\ fz > 0 /\ fy0 > 2^fz

(***************************************************************************)
(* Properties of the merge (SpecMerge)                                     *)
(***************************************************************************)
\* the input records by position <<t, r>>, in partition order
Positions ==
    {p \in (1..Len(mframes)) \X (1..MaxRecs) : p[2] <= Len(mframes[p[1]].rows)}

Rec(p) == mframes[p[1]].rows[p[2]]

Before(p, q) == p[1] < q[1] \/ (p[1] = q[1] /\ p[2] < q[2])

FirstWith(id) ==
    CHOOSE p \in Positions :
        Rec(p).osmid = id /\ \A q \in Positions : Rec(q).osmid = id => ~Before(q, p)

Merged == final_gdf.rows

\* C5: the merged result holds exactly one record per provider identity of
\* the inputs, the first in partition order, unchanged; every merged record
\* is an input record, and the merged records keep their input order.
C5_FirstOccurrenceKept ==
    mstage = "merged" =>
        /\ \A id \in IdValues \ {NaN} :
              (\E p \in Positions : Rec(p).osmid = id) =>
                  /\ Cardinality({n \in 1..Len(Merged) : Merged[n].osmid = id}) = 1
                  /\ \E n \in 1..Len(Merged) : Merged[n] = Rec(FirstWith(id))
        /\ \A n \in 1..Len(Merged) :
              Merged[n].attr \in Positions /\ Merged[n] = Rec(Merged[n].attr)
        /\ \A n, m \in 1..Len(Merged) : n < m => Before(Merged[n].attr, Merged[m].attr)

\* C5 witness: two sub-regions returned a record with the same identity and
\* different attributes, and the merge has run.
C5_Witness ==
    /\ mstage = "merged"
    /\ \E p, q \in Positions :
          /\ p[1] # q[1]
          /\ Rec(p).osmid = Rec(q).osmid
          /\ Rec(p).osmid # NaN
          /\ Len(Merged) >= 2

\* C6 as claimed: every input record without a provider identity is in the
\* merged result.
C6_NoIdentityKept ==
    mstage = "merged" =>
        \A p \in Positions :
            Rec(p).osmid = NaN => \E n \in 1..Len(Merged) : Merged[n] = Rec(p)

(***************************************************************************)
(* Properties of fetch_layer and download_layers (SpecLayer)               *)
(***************************************************************************)
\* the attempt loop of sub-region i is over
TileLoopOver == lpc \in {"tile_pause", "merge"}

\* fetch_layer has returned for the current layer
LayerReturned == lpc \in {"layer_pause", "done"} /\ layer >= 1

InSeq(x, seq) == \E n \in 1..Len(seq) : seq[n] = x

\* a sub-region whose attempts all timed out was attempted max_attempts times
C4_ExactlyMaxAttempts ==
    (TileLoopOver /\ ~stop_flag /\ kinds = {"timeout"}) => Len(issued) = max_attempts

\* a layer with such a sub-region shows in the failures the run reports
C4_CountedAsFailed ==
    (LayerReturned /\ ~stop_flag /\ exhausted > 0) => InSeq(layer, failed)

\* C4 as claimed: without a stop signal a sub-region whose every attempt
\* times out is attempted exactly max_attempts times, is then counted as a
\* failed item, and the loop goes on to the next sub-region.
C4_RetryExhaustion == C4_ExactlyMaxAttempts /\ C4_CountedAsFailed

Cancelled ==
    /\ stop_flag
    /\ kinds \cap {"data", "empty"} = {}
    /\ Len(issued) < max_attempts

\* C8 as claimed: when a layer fetch is cancelled after sub-regions returned
\* data, what was fetched is merged and written (a record is left out only
\* for a record of the same identity), and the run reports partial success.
C8_CancelKeepsDataPartial ==
    (LayerReturned /\ Cancelled /\ frames # <<>>) =>
        /\ written.layer = layer
        /\ \A t \in 1..Len(frames) : \A r \in 1..Len(frames[t].rows) :
              LET rec == frames[t].rows[r]
              IN  \E n \in 1..Len(written.rows) :
                     IF rec.osmid = NaN THEN written.rows[n] = rec
                     ELSE written.rows[n].osmid = rec.osmid
        /\ (lpc = "done" /\ InSeq(layer, succeeded)) => failed # <<>>

BothPicked == 1..(IF Len(ppicks[1]) < Len(ppicks[2]) THEN Len(ppicks[1]) ELSE Len(ppicks[2]))

\* the part that holds: in the sub-region fetch and in the boundary fetch
\* the two runs choose the same endpoint for every fetch
C12_VectorAndBoundary ==
    pkind \in {"vector", "boundary"} => \A k \in BothPicked : ppicks[1][k] = ppicks[2][k]

\* C12 as claimed: two runs with the same work list, endpoint list and fetch
\* outcomes choose the same endpoint for every fetch, in the sub-region
\* fetch, the boundary fetch and the raster tile fetch.
C12_SameEndpointEveryRun ==
    \A k \in BothPicked : ppicks[1][k] = ppicks[2][k]

\* C13: an empty result without error ends the sub-region: the loop goes
\* straight on to the pause before the next sub-region (or to the merge), no
\* wait is set, and the next attempt that goes out belongs to a later
\* sub-region or layer.
C13_EmptyIsTerminal ==
    [][/\ (lpc = "inflight" /\ "empty" \in kinds' /\ "empty" \notin kinds) =>
              /\ lpc' = after_tile(i)
              /\ wait_time' = wait_time
              /\ issued' = issued
       /\ ("empty" \in kinds /\ lpc' \in {"attempt", "inflight", "backoff"}) =>
              /\ issued' = <<>>
              /\ i' = i + 1 \/ layer' = layer + 1]_vars

\* C13 witness: the first attempt of a sub-region came back empty with two
\* attempts still allowed, and the loop is at the pause before the next one.
C13_Witness ==
    /\ kinds = {"empty"}
    /\ Len(issued) = 1
    /\ max_attempts = 3
    /\ lpc = "tile_pause"
    /\ wait_time = 0

(***************************************************************************)
(* Properties of the retry policy in both vector fetches                   *)
(***************************************************************************)
\* the requests made so far for sub-region t of the boundary fetch
BoundaryAttempts(t) == Cardinality({k \in 1..Len(bissued) : bissued[k].tile = t})

\* the part that holds: in fetch_layer, without a stop signal, a sub-region
\* that never got data or an empty result was attempted max_attempts times
C14_LayerFetchRetries ==
    (TileLoopOver /\ ~stop_flag /\ kinds \cap {"data", "empty"} = {}) =>
        Len(issued) = max_attempts

\* C14 as claimed, in the boundary fetch: a sub-region whose fetch failed is
\* left only after max_attempts attempts.
C14_BoundaryFetchRetries ==
    (bpc \in {"tile_pause", "finish"} /\ blast = "raise") =>
        BoundaryAttempts(bi) = bmax_attempts

(***************************************************************************)
(* Properties of the pauses of the vector workflow                         *)
(***************************************************************************)
\* the first request of a sub-region goes out
FirstAttemptGoesOut == lpc = "attempt" /\ lpc' = "inflight" /\ attempt = 1

\* C15 as claimed: a sleep lies between the last request of one sub-region
\* and the first request of the next, be the next in the same layer, in the
\* next layer, or in the next region.  Within one download_layers call
\* (SpecLayer) the formula holds.
C15_SleepBetweenFetches == [][FirstAttemptGoesOut => rested]_vars

(***************************************************************************)
(* Properties of the commits of run_downloader (SpecCommit)                *)
(***************************************************************************)
\* C16: the tile writes made since the last commit never exceed the commit
\* interval, and every completion that brings the count to a positive
\* multiple of the interval commits.
C16_PendingWritesBounded ==
    [][/\ cpending' <= COMMIT_EVERY
       /\ (cprocessed' = cprocessed + 1 /\ cprocessed' % COMMIT_EVERY = 0) => cpending' = 0]_vars

\* C16 witness: a whole interval of completions all had content, and the
\* last of them is about to trigger the commit.
C16_Witness ==
    /\ cpc = "loop"
    /\ cprocessed = 2 * COMMIT_EVERY - 1
    /\ cpending = COMMIT_EVERY - 1

\* C17: when run_downloader has returned no tile write is left uncommitted,
\* whatever the length of the work list.
C17_FinalCommit == cpc = "returned" => cpending = 0

\* C17 witness: the function has returned for a list one longer than a
\* multiple of the interval.
C17_Witness ==
    /\ cpc = "returned"
    /\ ctotal = COMMIT_EVERY + 1

(***************************************************************************)
(* Properties of the metadata table (Spec)                                 *)
(***************************************************************************)
\* C20 as claimed: the metadata table, in the session and on the file, holds
\* at most one row per name, and that row carries the value written last.
C20_MetadataIsMapping ==
    \A n \in MetaNames :
        /\ \A r \in MetaRowsWithName(metadata, n) :
              /\ metadata[r] = 1
              /\ MetaRowsWithName(metadata, n) = {r}
              /\ r \in meta(runs)
        /\ \A r \in MetaRowsWithName(disk_meta, n) :
              /\ disk_meta[r] = 1
              /\ MetaRowsWithName(disk_meta, n) = {r}

(***************************************************************************)
(* Properties of the store session (SpecSession)                           *)
(***************************************************************************)
\* C18 as claimed: a crash leaves the committed tiles and metadata as they
\* were and the file sound, so that the next open of the file starts a
\* session that sees every committed row.
C18_CommittedSurvivesCrash ==
    [][/\ rpc' = "crashed" =>
              (disk' = disk /\ disk_meta' = disk_meta /\ ~malformed')
       /\ (rpc = "start" /\ runs' = runs + 1) =>
              (rpc' = "loop" /\ tiles' = disk /\ disk_meta \sqsubseteq metadata')]_vars

\* C19: the step that leaves a session, after a normal return of the body or
\* after an error in it, makes the file hold everything the session wrote;
\* while the store is closed no call changes the file.
C19_ExitCommitsThenCloses ==
    [][/\ (conn = "open" /\ conn' = "closed" /\ rpc' # "crashed") =>
              (disk' = tiles /\ disk_meta' = metadata)
       /\ (conn = "closed" /\ conn' = "closed") =>
              (disk' = disk /\ disk_meta' = disk_meta)]_vars

\* C19 witness: the body of the first session raised after a tile was
\* written, and the file holds the tile and the metadata.
C19_Witness ==
    /\ rpc = "done"
    /\ runs = 1
    /\ last_error = "body"
    /\ BagCardinality(disk) = 1
    /\ disk_meta # EmptyBag

(***************************************************************************)
(* Properties of the raster fetchers (SpecFetch)                           *)
(***************************************************************************)
\* C21 (GeoTiles half): in GeoTiles every stored payload starts with the
\* signature of the declared format, and a result without content is
\* tallied as an error and not stored
C21_OsmStoresOnlyImages ==
    sprogram = "GeoTiles" =>
        /\ \A r \in BagToSet(sstore) : HasSignature(r.tile_data)
        /\ (spc = "loop" => (Truthy(sresult.content) <=> HasSignature(sresult.content)))

\* C21: no payload without the image signature of the declared format is
\* ever stored as a tile, in either raster downloader
C21_OnlyImagesStored ==
    \A r \in BagToSet(sstore) : HasSignature(r.tile_data)

(***************************************************************************)
(* Properties of the threads of run_downloader (SpecThreads)               *)
(***************************************************************************)
\* C22: at any instant at most one thread is inside save_tile or commit,
\* for every worker count and every interleaving of the fetch completions
C22_OneThreadInStore == Cardinality(InStore) <= 1

\* the loop thread is inside the periodic commit while a pool thread is
\* fetching the last tile
C22_Witness ==
    /\ tmain = "commit"
    /\ tprocessed = COMMIT_EVERY
    /\ \E w \in PoolThreads : pool[w] = "fetch_tile_content"

(***************************************************************************)
(* Properties of the dispatcher on a failing store (SpecStoreFailure)      *)
(***************************************************************************)
\* C23 (tile write half): the loop is left early only by a failing periodic
\* commit, never by a failing tile write
C23_OnlyCommitLeavesLoop ==
    [][(cpc = "loop" /\ cpc' = "raised") => periodic_commit(cprocessed')]_vars

\* C23: a storage failure on a tile write or on a periodic commit does not
\* abort the run: whenever run_downloader is left, every item of the work
\* list has been processed
C23_StorageFailureNotFatal ==
    cpc \in {"returned", "raised"} => cprocessed = ctotal

(***************************************************************************)
(* Properties of the exit of main() (SpecRegions)                          *)
(***************************************************************************)
\* C24: a run in which at least one item succeeded and at least one failed
\* ends with a non-error exit status
C24_PartialSuccessExitsZero ==
    (lpc = "exited" /\ succeeded_total # <<>> /\ failed_total # <<>>) => exit_status = 0

\* C24 (the rest): the exit status is 0 exactly when no layer failed
C24_ExitStatus ==
    lpc = "exited" => (exit_status = 0 <=> failed_total = <<>>)

(***************************************************************************)
(* Properties of the partition (SpecPartition)                             *)
(***************************************************************************)
Partitioned == gpc \in {"loop", "requested"}

PartitionRaised == gpc \in {"ZeroDivisionError", "ValueError"}

\* the approximate area of the bounds b over d is at most a
AreaAtMost(b, d, a) == area_num(b, d) <= a * area_den(b, d)

\* C25: whenever the approximate area of the region is at most max_area,
\* a zero-area region included, the partition returns exactly one
\* sub-region, and it is the region itself, unchanged
C25_SmallRegionUnsplit ==
    (gpc # "partition" /\ AreaAtMost(gbounds, 1, gmax_area)) =>
        /\ Partitioned
        /\ Len(gtiles) = 1
        /\ gtiles[1].geom = ggeom
        /\ gtiles[1].bounds = gbounds
        /\ gtiles[1].den = 1

\* a region of zero area (a meridian segment) came back as the one sub-region
C25_Witness ==
    /\ Partitioned
    /\ gbounds[1] = gbounds[3]
    /\ gbounds[2] < gbounds[4]
    /\ gmax_area > 0
    /\ gtiles = <<Tile(gbounds, 1, ggeom)>>

\* the approximate area of sub-region t, by the cosine of its own mean
\* latitude, is at most a
TileAreaAtMost(t, a) == AreaAtMost(t.bounds, t.den, a)

\* the area of a grid cell by the cosine of the mean latitude of the whole
\* region: the area of the region divided by n_tiles squared
CellShareAtMost(nt, a) == area_num(gbounds, 1) <= a * nt * nt * area_den(gbounds, 1)

\* C26 (what the choice of n_tiles does give): when the region is split,
\* the area of the region divided by the number of grid cells is at most
\* max_area
C26_CellShareBounded ==
    (Partitioned /\ gmax_area > 0 /\ ~AreaAtMost(gbounds, 1, gmax_area)) =>
        CellShareAtMost(n_tiles(gbounds, gmax_area), gmax_area)

\* C26: for every region and every max_area > 0, each sub-region of the
\* partition has approximate area (longitude span x latitude span of its
\* bounds, with the cosine correction) at most max_area
C26_SubRegionAreaBounded ==
    (Partitioned /\ gmax_area > 0) =>
        \A k \in 1..Len(gtiles) : TileAreaAtMost(gtiles[k], gmax_area)

\* the closed box c over the denominator nt holds the point p
InCell(p, c, nt) ==
    /\ c[1] <= p[1] * nt /\ p[1] * nt <= c[3]
    /\ c[2] <= p[2] * nt /\ p[2] * nt <= c[4]

\* the region was split into a grid
Split == Partitioned /\ gmax_area > 0 /\ ~AreaAtMost(gbounds, 1, gmax_area)

C28_PositiveAreaRaises ==
    (gpc # "partition" /\ gmax_area <= 0 /\ ~AreaAtMost(gbounds, 1, 0)) =>
        PartitionRaised /\ gtiles = <<>>

\* C28: for every region, a max_area <= 0 is rejected before any
\* sub-region is produced and before any fetch attempt is issued
C28_BadLimitRejected ==
    (gpc # "partition" /\ gmax_area <= 0) =>
        /\ gtiles = <<>>
        /\ gpc # "requested"

(***************************************************************************)
(* Properties of a run without endpoints (SpecEndpoints)                   *)
(***************************************************************************)
\* C29: with an empty endpoint list no request ever goes out, in the
\* boundary fetch and in the layer fetch alike, nothing succeeds, and the
\* run ends with a failed outcome
C29_NoEndpointsIsFatal ==
    no_servers(nservers) =>
        /\ rested
        /\ issued = <<>>
        /\ lpc # "inflight"
        /\ succeeded = <<>>
        /\ succeeded_total = <<>>
        /\ lpc = "exited" => exit_status = 1

\* without endpoints the run went through fetch_layer for every layer of
\* every region and exited; and, in another run, the boundary fetch exited
C29_Witness ==
    /\ no_servers(nservers)
    /\ lpc = "exited"
    /\ Len(failed_total) = nregions * nlayers
    /\ nlayers > 1

\* the boundary fetch ended the run of a configuration without endpoints
C29_BoundaryExit ==
    ~(no_servers(nservers) /\ lpc = "exited" /\ failed_total = <<>> /\ ~voiv_file)

\* C29 (the boundary fetch by itself, SpecBoundary): without endpoints no
\* request goes out and no file is written; the function returns only when
\* the file was there already, and calls sys.exit(1) otherwise
C29_BoundaryNoRequest ==
    no_servers(bnservers) =>
        /\ bissued = <<>>
        /\ bfile = <<>>
        /\ bpc \in {"start", "returned", "exit1"}
        /\ bpc = "returned" => bexists

(***************************************************************************)
(* Properties of the merge as an operation (SpecAssoc)                     *)
(***************************************************************************)
\* C30: for all partial result sets A, B, C in a fixed partition order,
\* merge(merge(A, B), C) = merge(A, merge(B, C)) = merge(A, B, C), and
\* merging an already merged set returns it unchanged
C30_MergeAssociative ==
    /\ {"left", "flat"} \subseteq adone => aleft = aflat
    /\ {"right", "flat"} \subseteq adone => aright = aflat
    /\ {"left", "right"} \subseteq adone => aleft = aright
    /\ "again" \in adone => aagain = aflat

\* the four merges were made on sets of which one has no identity column
\* and two share an identity, so that the merge dropped a record
C30_Witness ==
    /\ adone = {"left", "right", "flat", "again"}
    /\ \E t \in 1..3 : ~aframes[t].osmid_column
    /\ \E t, u \in 1..3 :
          /\ t # u
          /\ \E r \in 1..Len(aframes[t].rows), q \in 1..Len(aframes[u].rows) :
                /\ aframes[t].rows[r].osmid # NaN
                /\ aframes[t].rows[r].osmid = aframes[u].rows[q].osmid
    /\ Len(aflat.rows) < Len(aframes[1].rows) + Len(aframes[2].rows) + Len(aframes[3].rows)
    /\ Len(aflat.rows) >= 2

(***************************************************************************)
(* Termination of fetch_layer (SpecAttempts)                               *)
(***************************************************************************)
\* C31: fetch_layer terminates for every finite sub-region list and every
\* sequence of fetch outcomes: it issues at most (number of sub-regions) x
\* max_attempts fetch attempts, and no retry loop runs without bound
C31_FetchLayerTerminates ==
    /\ [](nissued <= ntiles * max_attempts /\ attempt <= max_attempts /\ i <= ntiles)
    /\ <>(lpc = "done")

\* a call that used every attempt of every sub-region, and returned
C31_Witness ==
    /\ lpc = "done"
    /\ ntiles >= 2
    /\ max_attempts >= 2
    /\ nissued = ntiles * max_attempts

(***************************************************************************)
(* The dispatcher's work list and pool (Spec)                              *)
(***************************************************************************)
\* C32: in the raster path each work item is fetched at most once per run: no
\* tile is re-submitted or retried after a failure, an empty result or a
\* malformed payload. A fetch starts only on an item still queued, and no
\* item of the unchanged work list is ever queued again.
C32_FetchedAtMostOnce ==
    [][rpc = "loop" /\ rpc' = "loop" =>
          /\ tiles_list' = tiles_list
          /\ \A f \in Futures :
                /\ (fstate'[f] = "running" /\ fstate[f] # "running") => fstate[f] = "pending"
                /\ fstate[f] # "pending" => fstate'[f] # "pending"]_vars

\* a run over two items of which one fetch raised and the other brought a
\* malformed payload; both were counted and the loop is over
C32_Witness ==
    /\ rpc = "returned"
    /\ Len(tiles_list) = 2
    /\ errors_count = 2
    /\ \E f, g \in Futures :
          /\ fresult[f].error # "None"
          /\ fresult[g].error = "None" /\ ~Truthy(fresult[g].content)

\* C33: at every instant of a dispatcher run the number of tile fetches in
\* flight is at most the configured worker count, for any length of the
\* work list
C33_InFlightBounded == Cardinality(Running) <= workers

\* the work list is longer than the pool: every pool thread is fetching
\* and an item waits in the queue
C33_Witness ==
    /\ rpc = "loop"
    /\ Len(tiles_list) > workers
    /\ Cardinality(Running) = workers
    /\ \E f \in Futures : fstate[f] = "pending"

(***************************************************************************)
(* The grid of the partition (SpecPartition)                               *)
(***************************************************************************)
\* the least n >= 2 with n * n * max_area >= area, which is
\* max(2, ceil(sqrt(area / max_area))) for max_area > 0
ExpectedN ==
    CHOOSE n \in 2..(2 + (gbounds[3] - gbounds[1]) * (gbounds[4] - gbounds[2])
                             * m_per_deg_lat * m_per_deg_lat) :
        /\ CellShareAtMost(n, gmax_area)
        /\ n = 2 \/ ~CellShareAtMost(n - 1, gmax_area)

\* cell (ci, cj) of the n x n grid over the bounding rectangle, over n
GridCell(n, ci, cj) ==
    LET lon_step == gbounds[3] - gbounds[1]
        lat_step == gbounds[4] - gbounds[2]
    IN  <<gbounds[1] * n + ci * lon_step, gbounds[2] * n + cj * lat_step,
          gbounds[1] * n + ci * lon_step + lon_step, gbounds[2] * n + cj * lat_step + lat_step>>

\* the region is its bounding rectangle
Rectangular ==
    \/ gkind = "fetch_save_voivodeships_geojson"
    \/ \A x \in gbounds[1]..gbounds[3], y \in gbounds[2]..gbounds[4] : <<x, y>> \in ggeom

\* C34: when the approximate area exceeds max_area (> 0), the partition
\* uses n = max(2, ceil(sqrt(area / max_area))) and yields the n x n cells
\* of the bounding rectangle in column-major order (i outer, j inner), each
\* intersected with the region, minus the cells whose intersection is
\* empty; for a rectangular region it yields exactly n * n sub-regions
C34_GridPartition ==
    Split =>
        LET n == ExpectedN
            c == [k \in 1..(n * n) |-> GridCell(n, (k - 1) \div n, (k - 1) % n)]
            inside == [k \in 1..(n * n) |-> {p \in ggeom : InCell(p, c[k], n)}]
            rect == Rectangular
            kept == SelectSeq([k \in 1..(n * n) |-> k], LAMBDA k : rect \/ inside[k] # {})
        IN  /\ Len(gtiles) = Len(kept)
            /\ \A m \in 1..Len(gtiles) : gtiles[m].geom = inside[kept[m]]
            /\ rect =>
                  /\ Len(gtiles) = n * n
                  /\ \A m \in 1..Len(gtiles) : gtiles[m].bounds = c[m] /\ gtiles[m].den = n

\* a rectangle given to fetch_layer was split into a grid of at least
\* 3 x 3 cells, finer than the lattice, and every cell came back
C34_Witness ==
    /\ Split
    /\ gkind = "fetch_layer"
    /\ Rectangular
    /\ ExpectedN >= 3
    /\ Len(gtiles) = ExpectedN * ExpectedN
    /\ \E m \in 1..Len(gtiles) : gtiles[m].geom = {}

\* a region that is not a rectangle was split and lost a cell that is not
\* the last of the grid
C34_WitnessPolygon ==
    /\ Split
    /\ gkind = "fetch_layer"
    /\ ~Rectangular
    /\ Len(gtiles) < ExpectedN * ExpectedN
    /\ Len(gtiles) >= 3

(***************************************************************************)
(* The wait after a failed attempt (SpecBackoff)                           *)
(***************************************************************************)
\* C35 (what the code does): a message that mentions 'timeout' or 504 waits
\* sleep_on_timeout whatever else it mentions; one that mentions 'rate
\* limit' or 429 and neither of the former waits sleep_on_rate_limit; any
\* other waits sleep_on_error; the last attempt is not followed by a sleep
C35_TimeoutTestedFirst ==
    /\ epc \in {"sleep", "loop_over"} =>
          LET m == mentions(emsg)
          IN  /\ m.timeout => ewait_time = SLEEP_ON_TIMEOUT
              /\ (m.rate /\ ~m.timeout) => ewait_time = SLEEP_ON_RATE_LIMIT
              /\ (~m.rate /\ ~m.timeout) => ewait_time = SLEEP_ON_ERROR
    /\ epc = "sleep" => eattempt < emax_attempts
    /\ epc = "loop_over" => eattempt = emax_attempts

\* C35: after a failed attempt that is not the last one, the wait equals
\* the duration of the failure's class - a rate-limited failure (message
\* mentions 'rate limit' or 429) waits sleep_on_rate_limit, a timeout
\* (message mentions 'timeout' or 504) waits sleep_on_timeout, any other
\* error waits sleep_on_error - and a rate-limited failure waits longer
\* than a timeout, which waits longer than a generic error
C35_WaitMatchesClass ==
    epc = "sleep" =>
        /\ ("rate limit" \in emsg \/ "429" \in emsg) => ewait_time = SLEEP_ON_RATE_LIMIT
        /\ (~("rate limit" \in emsg \/ "429" \in emsg) /\ ("timeout" \in emsg \/ "504" \in emsg))
              => ewait_time = SLEEP_ON_TIMEOUT
        /\ emsg = {} => ewait_time = SLEEP_ON_ERROR
        /\ SLEEP_ON_RATE_LIMIT > SLEEP_ON_TIMEOUT
        /\ SLEEP_ON_TIMEOUT > SLEEP_ON_ERROR

(***************************************************************************)
(* The filters of the boundary fetch (SpecFilter)                          *)
(***************************************************************************)
\* the function is over: the file is written or the process has exited
BoundaryOver == xpc \in {"returned", "exit1"}

\* C36 (the admin_level half): no record of another admin_level takes part
\* in the dedup; the frames that are merged hold level 4 records only
C36_AdminLevelBeforeDedup ==
    \A t \in 1..Len(xframes) : \A r \in 1..Len(xframes[t].rows) :
        xframes[t].rows[r].admin_level = "4"

\* C36: in the boundary-dataset fetch every category filter (admin_level =
\* 4, and the voivodeship name / ISO-code filter) is applied before
\* identity deduplication, so that the result equals dedup(filter(
\* concatenation of the partial sets)) for all partial sets, including sets
\* in which records sharing an identity differ in their attributes
C36_FilterBeforeDedup ==
    BoundaryOver =>
        xfile = drop_duplicates(name_filter(admin_level_filter(concat_rows(xraw))))

(***************************************************************************)
(* What fetch_layer reports (SpecLayer)                                    *)
(***************************************************************************)
\* the packaging step of the current layer ran and reported success
Packaged == written.layer = layer /\ written.kmz

\* C37: fetch_layer reports a layer as succeeded if and only if at least
\* one sub-region returned a non-empty result and the packaging step
\* succeeded: sub-regions that exhausted their retries do not make the
\* layer fail, and a layer all of whose sub-regions returned a legitimate
\* empty result is reported as failed
C37_SucceededIffDataPackaged ==
    LayerReturned =>
        /\ InSeq(layer, succeeded) <=> (frames # <<>> /\ Packaged)
        /\ InSeq(layer, failed) <=> ~InSeq(layer, succeeded)

\* a layer is reported as succeeded although one of its sub-regions ran
\* out of attempts
C37_Witness ==
    /\ LayerReturned
    /\ ~stop_flag
    /\ exhausted > 0
    /\ Len(frames) >= 1
    /\ InSeq(layer, succeeded)

\* every sub-region of the layer returned an empty result, none raised:
\* the layer is in failed
C37_WitnessAllEmpty ==
    /\ LayerReturned
    /\ ~stop_flag
    /\ ntiles >= 2
    /\ i = ntiles
    /\ kinds = {"empty"}
    /\ exhausted = 0
    /\ frames = <<>>
    /\ InSeq(layer, failed)

(***************************************************************************)
(* The viewer on the dispatcher's file (SpecViewer)                        *)
(***************************************************************************)
\* the committed rows whose payload was fetched for top-origin index t
StoredFor(t) == {r \in BagToSet(vdisk) : r.tile_data.src = t}

\* C38: a payload the dispatcher stored for the fetched top-origin index
\* (z, x, y) is exactly the payload the viewer's get_tile(z, x, y) returns,
\* and get_tile answers 404 for every index for which no tile was stored
C38_ViewerRoundTrip ==
    vresp # NoResponse =>
        IF StoredFor(vreq) = {}
        THEN vresp.status = 404
        ELSE /\ vresp.status = 200
             /\ \A r \in StoredFor(vreq) : vresp.content = r.tile_data

\* the viewer answered with the payload of an index whose row in the file
\* differs from the y of the request, while the row of that y holds the
\* tile of another index
C38_Witness ==
    /\ vresp.status = 200
    /\ vresp.content.src = vreq
    /\ flip_y(vreq[1], vreq[3]) # vreq[3]
    /\ HasKey(vdisk, <<vreq[1], vreq[2], vreq[3]>>)

\* the viewer answered 404 for an index whose tile was never stored, the
\* file holding the tile of its mirror row
C38_Witness404 ==
    /\ vresp.status = 404
    /\ StoredFor(vreq) = {}
    /\ StoredFor(<<vreq[1], vreq[2], flip_y(vreq[1], vreq[3])>>) # {}

(***************************************************************************)
(* Order of completions (SpecOrder)                                        *)
(***************************************************************************)
\* the store and the tally that the work list and the fetch results determine
ExpectedStore ==
    SetToBag({Row(otiles_list[f][1], otiles_list[f][2],
                  (2^(otiles_list[f][1]) - 1) - otiles_list[f][3], oresp[f].body) :
              f \in {g \in OFutures : ~oresp[g].raised}})

ExpectedErrors == Cardinality({f \in OFutures : oresp[f].raised})

\* the place of future f in the order of completion
CompletedAt(f) == CHOOSE k \in 1..Len(ocompleted) : ocompleted[k] = f

\* C39, first half: for a work list of distinct indices the final store and
\* the final error tally are determined by the list and the fetch results,
\* whatever the interleaving of completions and the worker count
C39_SameForEveryInterleaving ==
    (opc = "returned" /\ Distinct(otiles_list)) =>
        /\ ostore = ExpectedStore
        /\ oerrors_count = ExpectedErrors

\* a run of two workers over two distinct indices returned, the second
\* fetch having completed before the first
C39_WitnessInterleaved ==
    /\ opc = "returned"
    /\ Distinct(otiles_list)
    /\ Len(otiles_list) = 2
    /\ oworkers = 2
    /\ ocompleted = <<2, 1>>
    /\ oerrors_count = 1

\* C39: for distinct indices the final store and error tally are the same
\* for every interleaving and worker count, and when the work list holds the
\* same index twice with different payloads the payload kept is the one
\* whose fetch completed first
C39_FirstCompletedKept ==
    opc = "returned" =>
        /\ Distinct(otiles_list) => (ostore = ExpectedStore /\ oerrors_count = ExpectedErrors)
        /\ \A f, g \in OFutures :
              (/\ otiles_list[f] = otiles_list[g]
               /\ ~oresp[f].raised /\ ~oresp[g].raised
               /\ oresp[f].body # oresp[g].body
               /\ CompletedAt(f) < CompletedAt(g))
              => \A r \in RowsWithKey(ostore, ExpectedKey(otiles_list[f])) :
                    r.tile_data = oresp[f].body

====
